---- MODULE Spec2Model ----
(***************************************************************************)
(* Model of the chat service's room membership manager, message send      *)
(* paths, socket gateways and HTTP authentication guard.                   *)
(*                                                                         *)
(* Every database statement (an awaited drizzle query) is one atomic step; *)
(* the synchronous code that follows it up to the next awaited statement   *)
(* belongs to the same step.                                               *)
(***************************************************************************)
EXTENDS Integers, FiniteSets, Sequences, TLC

\* ------------------------------------------------------------------------
\* Bounds
\* ------------------------------------------------------------------------
NumCalls == 2
MaxMessages == 2

\* ------------------------------------------------------------------------
\* Universe
\* ------------------------------------------------------------------------
Users == {"u1", "u2"}
NoUser == "null"
Rooms == {"r1"}
MissingRoom == "r0"
RoomIds == Rooms \cup {MissingRoom}
Procs == 1..NumCalls

TokenUser == "u2"
TokenUsername == "bob"
Conns == {"s1", "s2"}
KeyIds == {"k1"}
Gateways == {"socket.gateway.ts", "part_022"}

VARIABLES
    rooms,             \* rooms table: id -> [ownerId, isActive]
    roomMembers,       \* room_members table: set of rows [id, roomId, userId, status, joinedIn]
    messages,          \* messages table: set of rows [id, roomId, userId, recipientId]
    apiKeys,           \* api_keys table: id -> [exists, userId, isActive, expired, scopes, lastUsedAt]
    call,              \* in-flight service calls: Procs -> call record
    base,              \* membership statuses when the current batch of calls began
    gateway,           \* which SocketGateway source the server runs
    conn,              \* sockets: Conns -> socket record
    connectedClients,  \* the gateway's registry: Conns -> entry
    subs,              \* socket.io rooms: set of <<connection, room>>
    lastEvent,         \* the last client event a handler ran for, with its outcome
    request,           \* the HTTP request before CombinedAuthGuard
    guard,             \* CombinedAuthGuard.canActivate: position, strategy, outcome
    passportCalls,     \* strategies handed to passport.authenticate, in order
    refreshTokens,     \* refresh_tokens table: token -> [isRevoked, expired]
    authCall,          \* in-flight AuthService calls: Procs -> call record
    scopeCheck,        \* the scope helper last called: arguments and return value
    http               \* the HTTP request in the rooms/users controllers: inputs, position, response

dbVars == <<rooms, roomMembers, messages, apiKeys>>
callVars == <<call, base>>
sockVars == <<gateway, conn, connectedClients, subs, lastEvent>>
guardVars == <<request, guard, passportCalls>>
authVars == <<refreshTokens, authCall, scopeCheck, http>>
vars == <<dbVars, callVars, sockVars, guardVars, authVars>>

\* what the membership and send actions leave alone
others == <<apiKeys, sockVars, guardVars, authVars>>

\* ------------------------------------------------------------------------
\* Helpers over the tables
\* ------------------------------------------------------------------------
NoResult == [kind |-> "none", status |-> "NONE"]
Res(k, s) == [kind |-> k, status |-> s]
IdleCall == [op |-> "idle", pc |-> "idle", roomId |-> MissingRoom,
             userId |-> NoUser, actor |-> NoUser, memId |-> 0,
             result |-> NoResult]

RowsOf(tbl, r, u) == {m \in tbl : m.roomId = r /\ m.userId = u}

\* select ... from room_members where roomId = r and userId = u limit 1
SelectMember(tbl, r, u) ==
    IF RowsOf(tbl, r, u) = {} THEN [id |-> 0, roomId |-> r, userId |-> u, status |-> "NONE",
                                       joinedIn |-> "none"]
    ELSE CHOOSE m \in RowsOf(tbl, r, u) : \A n \in RowsOf(tbl, r, u) : m.id <= n.id

\* getMemberStatus: the status of the pair's row, NONE (null) when there is no row
getMemberStatus(tbl, r, u) == SelectMember(tbl, r, u).status

\* a check that lets every sender with a row through
canSendMessage_anyRow(tbl, r, u) == getMemberStatus(tbl, r, u) # "NONE"

\* canSendMessage: status === 'ACTIVE'
canSendMessage(tbl, r, u) == getMemberStatus(tbl, r, u) = "ACTIVE"

\* uuid defaultRandom(): an id no row and no in-flight call holds
UsedIds == {m.id : m \in roomMembers} \cup {call[p].memId : p \in Procs}
               \cup {conn[c].memId : c \in Conns}
FreshId == CHOOSE i \in 1..(Cardinality(UsedIds) + 1) :
               /\ i \notin UsedIds
               /\ \A j \in 1..(Cardinality(UsedIds) + 1) : j \notin UsedIds => i <= j

\* the table without its uniqueness constraint
UniqueRoomUser_none(tbl, r, u) == TRUE

\* unique().on(roomId, userId): an insert for a pair that has a row is refused
UniqueRoomUser(tbl, r, u) == RowsOf(tbl, r, u) = {}

\* update ... set status = s where id = i returning: the rows left, and the row returned
UpdateStatus(tbl, i, s) == {IF m.id = i THEN [m EXCEPT !.status = s] ELSE m : m \in tbl}
HasId(tbl, i) == \E m \in tbl : m.id = i

\* an update that restamps joinedIn and leaves the status as it is
Rejoin_keepStatus(tbl, i) ==
    {IF m.id = i THEN [m EXCEPT !.joinedIn = "rejoined"] ELSE m : m \in tbl}

\* update ... set status = 'ACTIVE', joinedIn = new Date() where id = i: joinedIn records
\* the statement that wrote it last, the insert of the row or this update
Rejoin(tbl, i) ==
    {IF m.id = i THEN [m EXCEPT !.status = "ACTIVE", !.joinedIn = "rejoined"] ELSE m : m \in tbl}

StatusMap == [r \in Rooms |-> [u \in Users |-> getMemberStatus(roomMembers, r, u)]]

TypeOK ==
    /\ \A r \in Rooms : rooms[r].ownerId \in Users /\ rooms[r].isActive \in BOOLEAN
    /\ \A m \in roomMembers : m.roomId \in Rooms /\ m.userId \in Users
                               /\ m.status \in {"ACTIVE", "BAN"}
    /\ \A p \in Procs : call[p].pc \in {"idle", "join_selMember", "join_update", "join_insert",
                                        "leave_delete", "ban_selMember", "ban_insert",
                                        "ban_update", "unban_selMember", "unban_update",
                                        "create_canSend", "create_insert", "done"}

\* ------------------------------------------------------------------------
\* Init
\* ------------------------------------------------------------------------
NewSocket == [phase |-> "new", token |-> "none", apiKey |-> "none", userId |-> NoUser,
              apiKeyId |-> "none", authType |-> "none", username |-> "none",
              pc |-> "idle", room |-> MissingRoom, memId |-> 0, recipientId |-> NoUser]
NoEntry == [present |-> FALSE, userId |-> NoUser, apiKeyId |-> "none",
            username |-> "none", authType |-> "none"]
\* what a handler or the handshake did last: the event, its outcome, the message
\* broadcast it made (room, id, recipientId, receivers), the event it emitted to the
\* client itself (reply) and, for a connection, the credentials
Event(c, n, o) == [conn |-> c, name |-> n, outcome |-> o, room |-> "none", id |-> 0,
                   to |-> {}, token |-> "none", apiKey |-> "none", reply |-> "none",
                   recipientId |-> NoUser]

Absent == [present |-> FALSE, value |-> <<>>]
NoRequest == [authorization |-> Absent, xApiKey |-> Absent, queryApiKey |-> Absent,
              isPublic |-> FALSE, user |-> "none"]
IdleGuard == [pc |-> "idle", strategy |-> "none", outcome |-> "none", callbackCalled |-> FALSE]

\* the scopes generateApiKey wrote into the token and onto the row
TokenScopes == {"rooms:read", "rooms:write"}

\* the row generateApiKey leaves: active, unexpired, owned by the caller
IssuedKey == [exists |-> TRUE, userId |-> TokenUser, isActive |-> TRUE, expired |-> FALSE,
              scopes |-> TokenScopes, lastUsedAt |-> 0]

InitDb ==
    /\ rooms = [r \in Rooms |-> [ownerId |-> "u1", isActive |-> TRUE]]
    /\ roomMembers = {}
    /\ messages = {}
    /\ apiKeys = [k \in KeyIds |-> IssuedKey]
    /\ call = [p \in Procs |-> IdleCall]
    /\ base = [r \in Rooms |-> [u \in Users |-> "NONE"]]

InitSock ==
    /\ conn = [c \in Conns |-> NewSocket]
    /\ connectedClients = [c \in Conns |-> NoEntry]
    /\ subs = {}
    /\ lastEvent = Event("none", "none", "none")

\* the refresh tokens generateTokens has issued and stored
RefreshIds == {"rt1"}
NoRow == [exists |-> FALSE, userId |-> NoUser, isActive |-> FALSE, expired |-> FALSE,
          scopes |-> {}, lastUsedAt |-> 0]
IdleAuthCall == [op |-> "idle", pc |-> "idle", key |-> "none", token |-> "none",
                 requester |-> NoUser, row |-> NoRow,
                 result |-> [kind |-> "none", scopes |-> {}]]

InitAuth ==
    /\ refreshTokens = [t \in RefreshIds |-> [isRevoked |-> FALSE, expired |-> FALSE]]
    /\ authCall = [p \in Procs |-> IdleAuthCall]

\* no scope helper has been called
NoScopeCheck == [fn |-> "none", userScopes |-> <<>>, requiredScopes |-> <<>>,
                 result |-> FALSE]

\* request.user before any strategy has run
NoPrincipal == [type |-> "none", userId |-> NoUser, apiKeyId |-> "none", scopes |-> <<>>]

\* no request in a controller
IdleHttp == [pc |-> "idle", endpoint |-> "none", room |-> MissingRoom, user |-> NoPrincipal,
             apiKey |-> "undefined", filterUserId |-> NoUser, includeRecipients |-> FALSE,
             limit |-> 0, recipientId |-> NoUser, status |-> "none", body |-> <<>>]

InitGuard ==
    /\ request = NoRequest
    /\ guard = IdleGuard
    /\ passportCalls = <<>>

Init ==
    /\ InitDb
    /\ InitSock
    /\ gateway = "socket.gateway.ts"
    /\ InitGuard
    /\ InitAuth
    /\ scopeCheck = NoScopeCheck
    /\ http = IdleHttp

Finish(p, res) == call' = [call EXCEPT ![p].pc = "done", ![p].result = res]
Goto(p, pc) == call' = [call EXCEPT ![p].pc = pc]

Begin(p, op, r, u, a, pc, res) ==
    call' = [call EXCEPT ![p] = [op |-> op, pc |-> pc, roomId |-> r, userId |-> u,
                                 actor |-> a, memId |-> 0, result |-> res]]

\* ------------------------------------------------------------------------
\* RoomMembersService.joinRoom
\* ------------------------------------------------------------------------
\* select room; NotFound when there is none
joinRoom_start(p) ==
    /\ call[p].pc = "idle"
    /\ \E r \in RoomIds, u \in Users :
         IF r \notin DOMAIN rooms
         THEN Begin(p, "join", r, u, u, "done", Res("NotFound", "NONE"))
         ELSE Begin(p, "join", r, u, u, "join_selMember", NoResult)
    /\ UNCHANGED <<rooms, roomMembers, messages, base, others>>

\* joinRoom sending every existing row through its update
joinRoom_selMember_restamp(p) ==
    /\ call[p].pc = "join_selMember"
    /\ LET m == SelectMember(roomMembers, call[p].roomId, call[p].userId) IN
         IF m.status = "NONE" THEN Goto(p, "join_insert")
         ELSE call' = [call EXCEPT ![p].pc = "join_update", ![p].memId = m.id]
    /\ UNCHANGED <<rooms, roomMembers, messages, base, others>>

\* select existing member; branch on it
joinRoom_selMember(p) ==
    /\ call[p].pc = "join_selMember"
    /\ LET m == SelectMember(roomMembers, call[p].roomId, call[p].userId) IN
         IF m.status = "NONE" THEN Goto(p, "join_insert")
         ELSE IF m.status = "BAN"
              THEN call' = [call EXCEPT ![p].pc = "join_update", ![p].memId = m.id]
              ELSE Finish(p, Res("row", m.status))
    /\ UNCHANGED <<rooms, roomMembers, messages, base, others>>

\* update status ACTIVE, joinedIn where id = existingMember.id returning
joinRoom_update(p) ==
    /\ call[p].pc = "join_update"
    /\ roomMembers' = Rejoin(roomMembers, call[p].memId)
    /\ call' = [call EXCEPT ![p].pc = "done", ![p].memId = 0,
                            ![p].result = IF HasId(roomMembers, call[p].memId)
                                          THEN Res("row", "ACTIVE")
                                          ELSE Res("undefined", "NONE")]
    /\ UNCHANGED <<rooms, messages, base, others>>

\* the insert of joinRoom/banUser under the (roomId, userId) uniqueness constraint
InsertMember(p, s) ==
    IF UniqueRoomUser(roomMembers, call[p].roomId, call[p].userId)
    THEN /\ roomMembers' = roomMembers \cup
                {[id |-> FreshId, roomId |-> call[p].roomId,
                  userId |-> call[p].userId, status |-> s, joinedIn |-> "inserted"]}
         /\ Finish(p, Res("row", s))
    ELSE /\ roomMembers' = roomMembers
         /\ Finish(p, Res("UniqueViolation", "NONE"))

\* joinRoom inserting the row with the wrong status
joinRoom_insert_ban(p) ==
    /\ call[p].pc = "join_insert"
    /\ InsertMember(p, "BAN")
    /\ UNCHANGED <<rooms, messages, base, others>>

joinRoom_insert(p) ==
    /\ call[p].pc = "join_insert"
    /\ InsertMember(p, "ACTIVE")
    /\ UNCHANGED <<rooms, messages, base, others>>

\* ------------------------------------------------------------------------
\* RoomMembersService.leaveRoom
\* ------------------------------------------------------------------------
leaveRoom_start(p) ==
    /\ call[p].pc = "idle"
    /\ \E r \in RoomIds, u \in Users :
         IF r \notin DOMAIN rooms
         THEN Begin(p, "leave", r, u, u, "done", Res("NotFound", "NONE"))
         ELSE Begin(p, "leave", r, u, u, "leave_delete", NoResult)
    /\ UNCHANGED <<rooms, roomMembers, messages, base, others>>

\* a leaveRoom that keeps a banned member's row
leaveRoom_delete_activeOnly(p) ==
    /\ call[p].pc = "leave_delete"
    /\ LET del == {m \in RowsOf(roomMembers, call[p].roomId, call[p].userId) :
                     m.status = "ACTIVE"} IN
         /\ roomMembers' = roomMembers \ del
         /\ IF del = {} THEN Finish(p, Res("NotFound", "NONE"))
            ELSE Finish(p, Res("row", "ACTIVE"))
    /\ UNCHANGED <<rooms, messages, base, others>>

\* delete ... where roomId and userId returning
leaveRoom_delete(p) ==
    /\ call[p].pc = "leave_delete"
    /\ LET del == RowsOf(roomMembers, call[p].roomId, call[p].userId) IN
         /\ roomMembers' = roomMembers \ del
         /\ IF del = {} THEN Finish(p, Res("NotFound", "NONE"))
            ELSE Finish(p, Res("row", SelectMember(roomMembers, call[p].roomId,
                                                    call[p].userId).status))
    /\ UNCHANGED <<rooms, messages, base, others>>

\* ------------------------------------------------------------------------
\* RoomMembersService.banUser
\* ------------------------------------------------------------------------
\* a service that lets anybody ban and unban
notOwner_never(r, a) == FALSE

\* room.ownerId !== bannedBy
notOwner(r, a) == rooms[r].ownerId # a

\* banUser without the owner check
targetsOwner_never(r, u) == FALSE

\* userId === room.ownerId
targetsOwner(r, u) == u = rooms[r].ownerId

\* select room; NotFound, then Forbidden for a non-owner, then Conflict for the owner
banUser_start(p) ==
    /\ call[p].pc = "idle"
    /\ \E r \in RoomIds, u \in Users, a \in Users :
         IF r \notin DOMAIN rooms
         THEN Begin(p, "ban", r, u, a, "done", Res("NotFound", "NONE"))
         ELSE IF notOwner(r, a)
         THEN Begin(p, "ban", r, u, a, "done", Res("Forbidden", "NONE"))
         ELSE IF targetsOwner(r, u)
         THEN Begin(p, "ban", r, u, a, "done", Res("Conflict", "NONE"))
         ELSE Begin(p, "ban", r, u, a, "ban_selMember", NoResult)
    /\ UNCHANGED <<rooms, roomMembers, messages, base, others>>

banUser_selMember(p) ==
    /\ call[p].pc = "ban_selMember"
    /\ LET m == SelectMember(roomMembers, call[p].roomId, call[p].userId) IN
         IF m.status = "NONE" THEN Goto(p, "ban_insert")
         ELSE call' = [call EXCEPT ![p].pc = "ban_update", ![p].memId = m.id]
    /\ UNCHANGED <<rooms, roomMembers, messages, base, others>>

banUser_insert(p) ==
    /\ call[p].pc = "ban_insert"
    /\ InsertMember(p, "BAN")
    /\ UNCHANGED <<rooms, messages, base, others>>

\* update status BAN where id = existingMember.id returning
banUser_update(p) ==
    /\ call[p].pc = "ban_update"
    /\ roomMembers' = UpdateStatus(roomMembers, call[p].memId, "BAN")
    /\ call' = [call EXCEPT ![p].pc = "done", ![p].memId = 0,
                            ![p].result = IF HasId(roomMembers, call[p].memId)
                                          THEN Res("row", "BAN")
                                          ELSE Res("undefined", "NONE")]
    /\ UNCHANGED <<rooms, messages, base, others>>

\* ------------------------------------------------------------------------
\* RoomMembersService.unbanUser
\* ------------------------------------------------------------------------
unbanUser_start(p) ==
    /\ call[p].pc = "idle"
    /\ \E r \in RoomIds, u \in Users, a \in Users :
         IF r \notin DOMAIN rooms
         THEN Begin(p, "unban", r, u, a, "done", Res("NotFound", "NONE"))
         ELSE IF notOwner(r, a)
         THEN Begin(p, "unban", r, u, a, "done", Res("Forbidden", "NONE"))
         ELSE Begin(p, "unban", r, u, a, "unban_selMember", NoResult)
    /\ UNCHANGED <<rooms, roomMembers, messages, base, others>>

\* unbanUser without its 'User is not banned' check
unbanUser_selMember_noConflict(p) ==
    /\ call[p].pc = "unban_selMember"
    /\ LET m == SelectMember(roomMembers, call[p].roomId, call[p].userId) IN
         IF m.status = "NONE" THEN Finish(p, Res("NotFound", "NONE"))
         ELSE call' = [call EXCEPT ![p].pc = "unban_update", ![p].memId = m.id]
    /\ UNCHANGED <<rooms, roomMembers, messages, base, others>>

unbanUser_selMember(p) ==
    /\ call[p].pc = "unban_selMember"
    /\ LET m == SelectMember(roomMembers, call[p].roomId, call[p].userId) IN
         IF m.status = "NONE" THEN Finish(p, Res("NotFound", "NONE"))
         ELSE IF m.status # "BAN" THEN Finish(p, Res("Conflict", "NONE"))
         ELSE call' = [call EXCEPT ![p].pc = "unban_update", ![p].memId = m.id]
    /\ UNCHANGED <<rooms, roomMembers, messages, base, others>>

\* update status ACTIVE where id = existingMember.id returning
unbanUser_update(p) ==
    /\ call[p].pc = "unban_update"
    /\ roomMembers' = UpdateStatus(roomMembers, call[p].memId, "ACTIVE")
    /\ call' = [call EXCEPT ![p].pc = "done", ![p].memId = 0,
                            ![p].result = IF HasId(roomMembers, call[p].memId)
                                          THEN Res("row", "ACTIVE")
                                          ELSE Res("undefined", "NONE")]
    /\ UNCHANGED <<rooms, messages, base, others>>

\* ------------------------------------------------------------------------
\* Message send paths
\* ------------------------------------------------------------------------
\* sends that may still insert a row, so that the messages table stays bounded
PendingInserts ==
    Cardinality({p \in Procs : call[p].pc \in {"create_canSend", "create_insert"}})
    + Cardinality({c \in Conns : conn[c].pc = "msg_insert"})
    + (IF http.endpoint = "sendMessage" /\ http.pc \in {"findOne", "insert"} THEN 1 ELSE 0)
MayStartSend == Cardinality(messages) + PendingInserts < MaxMessages

\* a uuid that names no row of users
UnknownUser == "u9"

\* the foreign keys of a messages row: room_id names a room, recipient_id a user or null
MessageRowOk(r, rcpt) == r \in DOMAIN rooms /\ rcpt \in Users \cup {NoUser}

\* insert into messages ... returning, with the recipient_id column given
InsertMessageTo(r, u, rcpt) ==
    messages' = messages \cup {[id |-> Cardinality(messages) + 1, roomId |-> r, userId |-> u,
                                recipientId |-> rcpt]}

\* insert into messages ... returning, recipient_id null
InsertMessage(r, u) == InsertMessageTo(r, u, NoUser)

\* MessagesService.create: select room; NotFound when there is none
create_start(p) ==
    /\ call[p].pc = "idle"
    /\ MayStartSend
    /\ \E r \in RoomIds, u \in Users :
         IF r \notin DOMAIN rooms
         THEN Begin(p, "create", r, u, u, "done", Res("NotFound", "NONE"))
         ELSE Begin(p, "create", r, u, u, "create_canSend", NoResult)
    /\ UNCHANGED <<rooms, roomMembers, messages, base, others>>

\* a create that lets the room's owner send without a membership row
create_canSend_ownerPass(p) ==
    /\ call[p].pc = "create_canSend"
    /\ IF \/ canSendMessage(roomMembers, call[p].roomId, call[p].userId)
          \/ call[p].userId = rooms[call[p].roomId].ownerId
       THEN Goto(p, "create_insert")
       ELSE Finish(p, Res("Forbidden", "NONE"))
    /\ UNCHANGED <<rooms, roomMembers, messages, base, others>>

\* MessagesService.create: canSendMessage reads the pair's row now
create_canSend(p) ==
    /\ call[p].pc = "create_canSend"
    /\ IF canSendMessage(roomMembers, call[p].roomId, call[p].userId)
       THEN Goto(p, "create_insert")
       ELSE Finish(p, Res("Forbidden", "NONE"))
    /\ UNCHANGED <<rooms, roomMembers, messages, base, others>>

create_insert(p) ==
    /\ call[p].pc = "create_insert"
    /\ InsertMessage(call[p].roomId, call[p].userId)
    /\ Finish(p, Res("message", "NONE"))
    /\ UNCHANGED <<rooms, roomMembers, base, others>>

\* MessagesService.findAllByRoomId: the room's rows, newest first (ids grow with time)
findAllByRoomId(tbl, r) ==
    LET rows == {m \in tbl : m.roomId = r}
    IN  [i \in 1..Cardinality(rows) |->
           CHOOSE m \in rows : Cardinality({n \in rows : n.id > m.id}) = i - 1]

\* SocketGateway.handleMessage (socket.gateway.ts) with parsed.room set: the handler
\* calls roomsService.createMessage with clientInfo.userId and the room as given; the
\* foreign key on room_id refuses a room that does not exist, which the handler reports
\* to the sender as 'Failed to send message'
wsMessage(p) ==
    /\ call[p].pc = "idle"
    /\ MayStartSend
    /\ \E r \in RoomIds, u \in Users \cup {NoUser} :
         IF r \notin DOMAIN rooms
         THEN /\ Begin(p, "wsMessage", r, u, u, "done", Res("Failed", "NONE"))
              /\ messages' = messages
         ELSE /\ Begin(p, "wsMessage", r, u, u, "done", Res("message", "NONE"))
              /\ InsertMessage(r, u)
    /\ UNCHANGED <<rooms, roomMembers, base, others>>

\* RoomsController.sendMessage (POST /rooms/:id/messages) by a JWT user: findOne
\* (NotFound when there is no room), then roomsService.createMessage
postMessage(p) ==
    /\ call[p].pc = "idle"
    /\ MayStartSend
    /\ \E r \in RoomIds, u \in Users :
         IF r \notin DOMAIN rooms
         THEN /\ Begin(p, "postMessage", r, u, u, "done", Res("NotFound", "NONE"))
              /\ messages' = messages
         ELSE /\ Begin(p, "postMessage", r, u, u, "done", Res("message", "NONE"))
              /\ InsertMessage(r, u)
    /\ UNCHANGED <<rooms, roomMembers, base, others>>

\* ------------------------------------------------------------------------
\* Room deactivation (DELETE /rooms/:id -> RoomsService.deactivate)
\* ------------------------------------------------------------------------
deactivate(r) ==
    /\ rooms[r].isActive
    /\ rooms' = [rooms EXCEPT ![r].isActive = FALSE]
    /\ UNCHANGED <<roomMembers, messages, call, base, others>>

\* ------------------------------------------------------------------------
\* Responses are collected once no call is in flight; the statuses the next
\* calls start from are recorded
\* ------------------------------------------------------------------------
Quiescent == \A p \in Procs : call[p].pc \in {"idle", "done"}

Collect ==
    /\ Quiescent
    /\ \E p \in Procs : call[p].pc = "done"
    /\ call' = [p \in Procs |-> IdleCall]
    /\ base' = StatusMap
    /\ UNCHANGED <<rooms, roomMembers, messages, others>>

\* ------------------------------------------------------------------------
\* Socket handshake
\* ------------------------------------------------------------------------
TokenInputs == {"none", "access", "refresh", "expired", "bad"}
\* the apiKey field: nothing, the issued API-key JWT of row k1, a user access JWT, and
\* text that is no key
ApiKeyInputs == {"none", "k1", "access", "bad"}

\* a verifier that lets every token through
jwtVerify_any(t) == [ok |-> TRUE, type |-> "access", sub |-> TokenUser,
                     username |-> TokenUsername]

\* jwtService.verify: the signature and expiry hold for the issued tokens only; the
\* refresh and API-key secrets fall back to JWT_SECRET, so an unexpired token of any of
\* the three kinds verifies under it and payload.type is all that tells them apart
jwtVerify(t) == [ok |-> t \in {"access", "refresh", "api-key"}, type |-> t,
                 sub |-> IF t = "api-key" THEN "k1" ELSE TokenUser,
                 username |-> IF t = "api-key" THEN "none" ELSE TokenUsername]

\* handleConnection (socket.gateway.ts): copy the socket's fields into the registry
Register(c, s) == [connectedClients EXCEPT ![c] =
                      [present |-> TRUE, userId |-> s.userId, apiKeyId |-> s.apiKeyId,
                       username |-> s.username, authType |-> s.authType]]

\* next() of the middleware followed by handleConnection; t and k are the
\* credentials the handshake carried
Admit(c, s, t, k) ==
    /\ conn' = [conn EXCEPT ![c] = [s EXCEPT !.phase = "open", !.token = "none",
                                             !.apiKey = "none"]]
    /\ connectedClients' = Register(c, s)
    /\ lastEvent' = [Event(c, "connection", s.authType) EXCEPT !.token = t, !.apiKey = k]

\* a middleware that binds whatever token verifies
TokenBinds_anyKind(t, k) == t # "none" /\ jwtVerify(t).ok

\* the middleware trying the token before the apiKey, whatever else is supplied
TokenBinds(t, k) == t # "none" /\ jwtVerify(t).ok /\ jwtVerify(t).type = "access"

\* afterInit middleware: token first, then apiKey, else unauthenticated
mw_connect(c) ==
    /\ gateway = "socket.gateway.ts"
    /\ conn[c].phase = "new"
    /\ \E t \in TokenInputs \cup {"api-key"}, k \in ApiKeyInputs :
         LET v == jwtVerify(t) IN
             IF TokenBinds(t, k)
             THEN Admit(c, [conn[c] EXCEPT !.userId = v.sub, !.username = v.username,
                                           !.authType = "user"], t, k)
             ELSE IF k # "none"
             THEN /\ conn' = [conn EXCEPT ![c].token = t, ![c].apiKey = k,
                                          ![c].phase = IF k \in KeyIds THEN "mw_selectKey"
                                                       ELSE "mw_selectLegacy"]
                  /\ UNCHANGED <<connectedClients, lastEvent>>
             ELSE Admit(c, conn[c], t, k)
    /\ UNCHANGED <<dbVars, callVars, gateway, subs, guardVars, authVars>>

\* a lookup that never looks at expiresAt
KeyRowValid_noExpiry(row) == row.exists /\ row.isActive

\* validateApiKeyJwt: the row selected by id where isActive, and not past expiresAt
KeyRowValid(row) == row.exists /\ row.isActive /\ ~row.expired

\* validateApiKeyJwt: select the row by id where isActive
mw_selectKey(c) ==
    /\ conn[c].phase = "mw_selectKey"
    /\ IF KeyRowValid(apiKeys[conn[c].apiKey])
       THEN /\ conn' = [conn EXCEPT ![c].phase = "mw_stamp"]
            /\ UNCHANGED <<connectedClients, lastEvent>>
       ELSE Admit(c, conn[c], conn[c].token, conn[c].apiKey)
    /\ UNCHANGED <<dbVars, callVars, gateway, subs, guardVars, authVars>>

\* validateApiKeyJwt: update lastUsedAt, then the middleware binds the key
mw_stamp(c) ==
    /\ conn[c].phase = "mw_stamp"
    /\ apiKeys' = [apiKeys EXCEPT ![conn[c].apiKey].lastUsedAt = 1]
    /\ Admit(c, [conn[c] EXCEPT !.apiKeyId = conn[c].apiKey,
                                !.userId = apiKeys[conn[c].apiKey].userId,
                                !.authType = "api-key"], conn[c].token, conn[c].apiKey)
    /\ UNCHANGED <<rooms, roomMembers, messages, callVars, gateway, subs, guardVars, authVars>>

\* validateApiKey, catch branch: a key that is no JWT is looked up by its text
mw_selectLegacy(c) ==
    /\ conn[c].phase = "mw_selectLegacy"
    /\ Admit(c, conn[c], conn[c].token, conn[c].apiKey)
    /\ UNCHANGED <<dbVars, callVars, gateway, subs, guardVars, authVars>>

\* part_022 handleConnection up to its await: the socket is already connected
hc_connect(c) ==
    /\ gateway = "part_022"
    /\ conn[c].phase = "new"
    /\ \E t \in TokenInputs :
         IF t = "none"
         THEN /\ conn' = [conn EXCEPT ![c].phase = "open"]
              /\ lastEvent' = Event(c, "connection", "none")
         ELSE /\ conn' = [conn EXCEPT ![c].phase = "verifying", ![c].token = t]
              /\ UNCHANGED lastEvent
    /\ UNCHANGED <<dbVars, callVars, gateway, connectedClients, subs, guardVars, authVars>>

\* part_022 handleConnection after verifyAsync settles
hc_verified(c) ==
    /\ conn[c].phase = "verifying"
    /\ LET v == jwtVerify(conn[c].token) IN
         /\ conn' = [conn EXCEPT ![c].phase = "open", ![c].token = "none",
                                 ![c].userId = IF v.ok THEN v.sub ELSE NoUser]
         /\ lastEvent' = [Event(c, "connection", IF v.ok THEN "user" ELSE "none")
                             EXCEPT !.token = conn[c].token]
    /\ UNCHANGED <<dbVars, callVars, gateway, connectedClients, subs, guardVars, authVars>>

\* the socket is connected and its event handlers are bound
Connected(c) == conn[c].phase \in {"open", "verifying"}

\* a handler that was awaiting keeps what it captured; the socket itself is gone
Closed(s) == [NewSocket EXCEPT !.phase = "disconnected", !.pc = s.pc, !.room = s.room,
                               !.memId = s.memId, !.recipientId = s.recipientId,
                               !.userId = IF s.pc = "idle" THEN NoUser ELSE s.userId]

\* a disconnect that forgets to delete the registry entry
handleDisconnect_keepsEntry(c) ==
    /\ Connected(c)
    /\ conn' = [conn EXCEPT ![c] = Closed(conn[c])]
    /\ subs' = {x \in subs : x[1] # c}
    /\ lastEvent' = Event(c, "disconnect", "closed")
    /\ UNCHANGED <<dbVars, callVars, gateway, connectedClients, guardVars, authVars>>

handleDisconnect(c) ==
    /\ Connected(c)
    /\ conn' = [conn EXCEPT ![c] = Closed(conn[c])]
    /\ connectedClients' = [connectedClients EXCEPT ![c] = NoEntry]
    /\ subs' = {x \in subs : x[1] # c}
    /\ lastEvent' = Event(c, "disconnect", "closed")
    /\ UNCHANGED <<dbVars, callVars, gateway, guardVars, authVars>>

\* the handler returned
Returned(c) ==
    IF conn[c].phase = "disconnected"
    THEN [conn EXCEPT ![c] = Closed(NewSocket)]
    ELSE [conn EXCEPT ![c].pc = "idle", ![c].room = MissingRoom, ![c].memId = 0,
                      ![c].recipientId = NoUser]

\* ------------------------------------------------------------------------
\* Socket events
\* ------------------------------------------------------------------------
RoomArgs == RoomIds \cup {"none"}

\* a broadcast that reaches the recipient's sockets only
RoomEmit_toRecipient(c, r, id, rcpt) ==
    [Event(c, "message", IF id = 0 THEN "broadcast" ELSE "persisted")
        EXCEPT !.room = r, !.id = id, !.recipientId = rcpt,
               !.to = {x \in Conns : <<x, r>> \in subs
                                      /\ (rcpt = NoUser \/ conn[x].userId = rcpt)}]

\* server.to(room).emit('message', payload): every socket in the room gets it
RoomEmit(c, r, id, rcpt) ==
    [Event(c, "message", IF id = 0 THEN "broadcast" ELSE "persisted")
        EXCEPT !.room = r, !.id = id, !.recipientId = rcpt,
               !.to = {x \in Conns : <<x, r>> \in subs}]

EmitToRoom(c, r, id) == lastEvent' = RoomEmit(c, r, id, NoUser)

\* server.emit('message', ...)
EmitToAll(c) ==
    lastEvent' = [Event(c, "message", "broadcast")
                     EXCEPT !.to = {x \in Conns : Connected(x)}]

\* socket.gateway.ts handleMessage up to its await
handleMessage_begin(c) ==
    /\ gateway = "socket.gateway.ts"
    /\ Connected(c)
    /\ conn[c].pc = "idle"
    /\ \E valid \in BOOLEAN, r \in RoomArgs :
         IF ~valid
         THEN /\ lastEvent' = [Event(c, "message", "invalid") EXCEPT !.reply = "error"]
              /\ UNCHANGED conn
         ELSE IF r = "none"
         THEN /\ EmitToAll(c)
              /\ UNCHANGED conn
         ELSE /\ MayStartSend
              /\ lastEvent' = [Event(c, "message", "pending") EXCEPT !.room = r]
              /\ conn' = [conn EXCEPT ![c].pc = "msg_insert", ![c].room = r]
    /\ UNCHANGED <<dbVars, callVars, gateway, connectedClients, subs, guardVars, authVars>>

\* socket.gateway.ts handleMessage up to its await, for a 'message' event in the
\* documented format {message, room, recipientId} with a recipient uuid
handleMessage_to(c) ==
    /\ gateway = "socket.gateway.ts"
    /\ Connected(c)
    /\ conn[c].pc = "idle"
    /\ MayStartSend
    /\ \E r \in RoomIds, rcpt \in Users \cup {UnknownUser} :
         /\ lastEvent' = [Event(c, "message", "pending")
                            EXCEPT !.room = r, !.recipientId = rcpt]
         /\ conn' = [conn EXCEPT ![c].pc = "msg_insert", ![c].room = r,
                                 ![c].recipientId = rcpt]
    /\ UNCHANGED <<dbVars, callVars, gateway, connectedClients, subs, guardVars, authVars>>

\* handleMessage publishing to the room whether or not the row was stored
handleMessage_insert_publishAnyway(c) ==
    /\ conn[c].pc = "msg_insert"
    /\ IF MessageRowOk(conn[c].room, conn[c].recipientId)
       THEN InsertMessageTo(conn[c].room, conn[c].userId, conn[c].recipientId)
       ELSE UNCHANGED messages
    /\ lastEvent' = RoomEmit(c, conn[c].room, Cardinality(messages) + 1,
                             conn[c].recipientId)
    /\ conn' = Returned(c)
    /\ UNCHANGED <<rooms, roomMembers, apiKeys, callVars, gateway, connectedClients,
                   subs, guardVars, authVars>>

\* socket.gateway.ts handleMessage: roomsService.createMessage, then the broadcast
handleMessage_insert(c) ==
    /\ conn[c].pc = "msg_insert"
    /\ IF MessageRowOk(conn[c].room, conn[c].recipientId)
       THEN /\ InsertMessageTo(conn[c].room, conn[c].userId, conn[c].recipientId)
            /\ lastEvent' = RoomEmit(c, conn[c].room, Cardinality(messages) + 1,
                                     conn[c].recipientId)
       ELSE /\ lastEvent' = [Event(c, "message", "failed")
                               EXCEPT !.room = conn[c].room, !.reply = "error"]
            /\ UNCHANGED messages
    /\ conn' = Returned(c)
    /\ UNCHANGED <<rooms, roomMembers, apiKeys, callVars, gateway, connectedClients,
                   subs, guardVars, authVars>>

\* socket.gateway.ts handleJoinRoom / handleLeaveRoom
handleJoinRoom(c) ==
    /\ gateway = "socket.gateway.ts"
    /\ Connected(c)
    /\ \E valid \in BOOLEAN, r \in Rooms :
         IF valid
         THEN /\ subs' = subs \cup {<<c, r>>}
              /\ lastEvent' = [Event(c, "join-room", "joined")
                                 EXCEPT !.room = r, !.reply = "joined-room"]
         ELSE /\ lastEvent' = [Event(c, "join-room", "invalid") EXCEPT !.reply = "error"]
              /\ UNCHANGED subs
    /\ UNCHANGED <<dbVars, callVars, gateway, conn, connectedClients, guardVars, authVars>>

handleLeaveRoom(c) ==
    /\ gateway = "socket.gateway.ts"
    /\ Connected(c)
    /\ \E valid \in BOOLEAN, r \in Rooms :
         IF valid
         THEN /\ subs' = subs \ {<<c, r>>}
              /\ lastEvent' = [Event(c, "leave-room", "left")
                                 EXCEPT !.room = r, !.reply = "left-room"]
         ELSE /\ lastEvent' = [Event(c, "leave-room", "invalid") EXCEPT !.reply = "error"]
              /\ UNCHANGED subs
    /\ UNCHANGED <<dbVars, callVars, gateway, conn, connectedClients, guardVars, authVars>>

\* the usernames a 'join' or 'leave' event may carry
UsernameArgs == {"none", "alice"}

\* data?.username || clientInfo?.username || clientInfo?.apiKeyId || client.id
DisplayName(c, given) ==
    IF given # "none" THEN given
    ELSE IF connectedClients[c].username # "none" THEN connectedClients[c].username
    ELSE IF connectedClients[c].apiKeyId # "none" THEN connectedClients[c].apiKeyId
    ELSE c

\* socket.gateway.ts handleJoin: the registry entry takes the name when it has none
handleJoin(c) ==
    /\ gateway = "socket.gateway.ts"
    /\ Connected(c)
    /\ \E given \in UsernameArgs :
         /\ connectedClients' =
               IF connectedClients[c].username = "none"
               THEN [connectedClients EXCEPT ![c].username = DisplayName(c, given),
                                             ![c].present = TRUE]
               ELSE connectedClients
         /\ lastEvent' = Event(c, "join", DisplayName(c, given))
    /\ UNCHANGED <<dbVars, callVars, gateway, conn, subs, guardVars, authVars>>

\* socket.gateway.ts handleLeave
handleLeave(c) ==
    /\ gateway = "socket.gateway.ts"
    /\ Connected(c)
    /\ \E given \in UsernameArgs :
         lastEvent' = Event(c, "leave", DisplayName(c, given))
    /\ UNCHANGED <<dbVars, callVars, gateway, conn, connectedClients, subs, guardVars, authVars>>

\* part_022 handleMessage up to its await
hc_handleMessage_begin(c) ==
    /\ gateway = "part_022"
    /\ Connected(c)
    /\ conn[c].pc = "idle"
    /\ \E r \in RoomArgs :
         IF conn[c].userId = NoUser
         THEN /\ lastEvent' = [Event(c, "message", "unauthorized")
                                 EXCEPT !.room = r, !.reply = "exception"]
              /\ UNCHANGED conn
         ELSE IF r = "none"
         THEN /\ lastEvent' = Event(c, "message", "missing-roomId")
              /\ UNCHANGED conn
         ELSE /\ lastEvent' = [Event(c, "message", "pending") EXCEPT !.room = r]
              /\ conn' = [conn EXCEPT ![c].pc = "hm_canSend", ![c].room = r]
    /\ UNCHANGED <<dbVars, callVars, gateway, connectedClients, subs, guardVars, authVars>>

\* part_022 handleMessage: canSendMessage, then the broadcast or the error
hc_handleMessage_canSend(c) ==
    /\ conn[c].pc = "hm_canSend"
    /\ IF canSendMessage(roomMembers, conn[c].room, conn[c].userId)
       THEN EmitToRoom(c, conn[c].room, 0)
       ELSE lastEvent' = [Event(c, "message", "cannot-send")
                             EXCEPT !.room = conn[c].room, !.reply = "error"]
    /\ conn' = Returned(c)
    /\ UNCHANGED <<dbVars, callVars, gateway, connectedClients, subs, guardVars, authVars>>

\* part_022 handleJoinRoom / handleLeaveRoom
hc_handleJoinRoom(c) ==
    /\ gateway = "part_022"
    /\ Connected(c)
    /\ \E r \in Rooms :
         /\ subs' = subs \cup {<<c, r>>}
         /\ lastEvent' = [Event(c, "join-room", "joined") EXCEPT !.room = r]
    /\ UNCHANGED <<dbVars, callVars, gateway, conn, connectedClients, guardVars, authVars>>

hc_handleLeaveRoom(c) ==
    /\ gateway = "part_022"
    /\ Connected(c)
    /\ \E r \in Rooms :
         /\ subs' = subs \ {<<c, r>>}
         /\ lastEvent' = [Event(c, "leave-room", "left") EXCEPT !.room = r]
    /\ UNCHANGED <<dbVars, callVars, gateway, conn, connectedClients, guardVars, authVars>>

\* a handler that subscribes the socket before the membership join
handleJoinRoomMember_begin_joinsFirst(c) ==
    /\ gateway = "part_022"
    /\ Connected(c)
    /\ conn[c].pc = "idle"
    /\ conn[c].userId # NoUser
    /\ \E r \in RoomIds :
         /\ subs' = subs \cup {<<c, r>>}
         /\ IF r \notin DOMAIN rooms
            THEN /\ lastEvent' = [Event(c, "join-room-member", "error")
                                    EXCEPT !.room = r, !.reply = "error"]
                 /\ UNCHANGED conn
            ELSE /\ lastEvent' = [Event(c, "join-room-member", "pending") EXCEPT !.room = r]
                 /\ conn' = [conn EXCEPT ![c].pc = "jrm_selMember", ![c].room = r]
    /\ UNCHANGED <<dbVars, callVars, gateway, connectedClients, guardVars, authVars>>

\* part_022 handleJoinRoomMember: the checks, then joinRoom's select of the room
handleJoinRoomMember_begin(c) ==
    /\ gateway = "part_022"
    /\ Connected(c)
    /\ conn[c].pc = "idle"
    /\ \E r \in RoomArgs :
         IF conn[c].userId = NoUser
         THEN /\ lastEvent' = [Event(c, "join-room-member", "unauthorized")
                                 EXCEPT !.room = r, !.reply = "exception"]
              /\ UNCHANGED conn
         ELSE IF r = "none"
         THEN /\ lastEvent' = Event(c, "join-room-member", "missing-roomId")
              /\ UNCHANGED conn
         ELSE IF r \notin DOMAIN rooms
         THEN /\ lastEvent' = [Event(c, "join-room-member", "error")
                                 EXCEPT !.room = r, !.reply = "error"]
              /\ UNCHANGED conn
         ELSE /\ lastEvent' = [Event(c, "join-room-member", "pending") EXCEPT !.room = r]
              /\ conn' = [conn EXCEPT ![c].pc = "jrm_selMember", ![c].room = r]
    /\ UNCHANGED <<dbVars, callVars, gateway, connectedClients, subs, guardVars, authVars>>

\* joinRoom returned: client.join(roomId), 'user-joined-room' to the others in the room
\* (to) and 'room-joined' to the client
JoinedAsMember(c) ==
    /\ subs' = IF Connected(c) THEN subs \cup {<<c, conn[c].room>>} ELSE subs
    /\ lastEvent' = [Event(c, "join-room-member", "joined")
                       EXCEPT !.room = conn[c].room, !.reply = "room-joined",
                              !.to = {x \in Conns \ {c} : <<x, conn[c].room>> \in subs}]
    /\ conn' = Returned(c)

handleJoinRoomMember_selMember(c) ==
    /\ conn[c].pc = "jrm_selMember"
    /\ LET m == SelectMember(roomMembers, conn[c].room, conn[c].userId) IN
         IF m.status = "NONE"
         THEN /\ conn' = [conn EXCEPT ![c].pc = "jrm_insert"]
              /\ UNCHANGED <<subs, lastEvent>>
         ELSE IF m.status = "BAN"
         THEN /\ conn' = [conn EXCEPT ![c].pc = "jrm_update", ![c].memId = m.id]
              /\ UNCHANGED <<subs, lastEvent>>
         ELSE JoinedAsMember(c)
    /\ UNCHANGED <<dbVars, callVars, gateway, connectedClients, guardVars, authVars>>

handleJoinRoomMember_insert(c) ==
    /\ conn[c].pc = "jrm_insert"
    /\ IF UniqueRoomUser(roomMembers, conn[c].room, conn[c].userId)
       THEN /\ roomMembers' = roomMembers \cup
                   {[id |-> FreshId, roomId |-> conn[c].room,
                     userId |-> conn[c].userId, status |-> "ACTIVE",
                     joinedIn |-> "inserted"]}
            /\ JoinedAsMember(c)
       ELSE /\ lastEvent' = [Event(c, "join-room-member", "error")
                                EXCEPT !.room = conn[c].room, !.reply = "error"]
            /\ conn' = Returned(c)
            /\ UNCHANGED <<roomMembers, subs>>
    /\ UNCHANGED <<rooms, messages, apiKeys, callVars, gateway, connectedClients, guardVars, authVars>>

handleJoinRoomMember_update(c) ==
    /\ conn[c].pc = "jrm_update"
    /\ roomMembers' = Rejoin(roomMembers, conn[c].memId)
    /\ JoinedAsMember(c)
    /\ UNCHANGED <<rooms, messages, apiKeys, callVars, gateway, connectedClients, guardVars, authVars>>

\* ------------------------------------------------------------------------
\* CombinedAuthGuard
\* ------------------------------------------------------------------------
\* header and query values are strings, kept as sequences of characters
Str(chars) == [present |-> TRUE, value |-> chars]
Bearer == <<"B", "e", "a", "r", "e", "r", " ">>
AuthorizationInputs ==
    {Absent, Str(<<>>), Str(Bearer \o <<"t">>), Str(Bearer),
     Str(<<"B", "e", "a", "r", "e", "r">>), Str(<<"b", "e", "a", "r", "e", "r", " ", "t">>),
     Str(<<"B", "a", "s", "i", "c", " ", "c">>)}
KeyInputs == {Absent, Str(<<>>), Str(<<"k">>)}
Requests == [authorization : AuthorizationInputs, xApiKey : KeyInputs,
             queryApiKey : KeyInputs, isPublic : BOOLEAN, user : {"none"}]

\* what a strategy may leave as request.user
UserKinds == {"userId", "apiKeyId", "both", "empty"}
hasUserId(u) == u \in {"userId", "both"}
hasApiKeyId(u) == u \in {"apiKeyId", "both"}

\* String.prototype.startsWith
StartsWith(str, prefix) ==
    /\ Len(str) >= Len(prefix)
    /\ SubSeq(str, 1, Len(prefix)) = prefix

\* JavaScript truthiness of a string that may be undefined
Truthy(h) == h.present /\ h.value # <<>>

\* authHeader && typeof authHeader === 'string' && authHeader.startsWith('Bearer ')
hasAuthorization(req) ==
    Truthy(req.authorization) /\ StartsWith(req.authorization.value, Bearer)

\* the guard looking at the X-API-Key header alone
hasApiKey_headerOnly(req) == Truthy(req.xApiKey)

\* (apiKeyHeader && typeof apiKeyHeader === 'string') || request.query?.apiKey
hasApiKey(req) == Truthy(req.xApiKey) \/ Truthy(req.queryApiKey)

\* a request reaches the guard
receive ==
    /\ guard.pc \in {"idle", "done"}
    /\ request' \in Requests
    /\ guard' = [IdleGuard EXCEPT !.pc = "received"]
    /\ passportCalls' = <<>>
    /\ UNCHANGED <<dbVars, callVars, sockVars, authVars>>

Done(o) == guard' = [guard EXCEPT !.pc = "done", !.outcome = o]

\* authenticate(strategy, context) up to the call of the passport middleware
Authenticate(strategy) ==
    /\ guard' = [guard EXCEPT !.pc = "authenticating", !.strategy = strategy]
    /\ passportCalls' = Append(passportCalls, strategy)

\* canActivate up to its first await or its return
canActivate_begin ==
    /\ guard.pc = "received"
    /\ IF request.isPublic
       THEN Done("true") /\ UNCHANGED passportCalls
       ELSE IF hasAuthorization(request) /\ hasApiKey(request)
       THEN Done("BadRequest") /\ UNCHANGED passportCalls
       ELSE IF hasAuthorization(request) THEN Authenticate("jwt")
       ELSE IF hasApiKey(request) THEN Authenticate("api-key-jwt")
       ELSE Done("Unauthorized") /\ UNCHANGED passportCalls
    /\ UNCHANGED <<dbVars, callVars, sockVars, authVars, request>>

\* a canActivate that takes whatever the strategy left
Checked_trusting(strategy, u) == "true"

\* canActivate after authenticate resolved: the checks on request.user
Checked(strategy, u) ==
    IF strategy = "jwt"
    THEN IF u = "none" \/ ~hasUserId(u) THEN "Unauthorized" ELSE "true"
    ELSE IF u = "none" \/ (~hasUserId(u) /\ ~hasApiKeyId(u)) THEN "Unauthorized" ELSE "true"

\* the callback handed to passport.authenticate runs
passport_callback ==
    /\ guard.pc = "authenticating"
    /\ ~guard.callbackCalled
    /\ \E err \in BOOLEAN, u \in UserKinds \cup {"none"} :
         IF err \/ u = "none"
         THEN /\ guard' = [guard EXCEPT !.pc = "done", !.outcome = "Unauthorized",
                                        !.callbackCalled = TRUE]
              /\ UNCHANGED request
         ELSE /\ request' = [request EXCEPT !.user = u]
              /\ guard' = [guard EXCEPT !.pc = "done", !.callbackCalled = TRUE,
                                        !.outcome = Checked(guard.strategy, u)]
    /\ UNCHANGED <<dbVars, callVars, sockVars, authVars, passportCalls>>

\* the middleware only calls next(error); the setImmediate body runs
passport_next ==
    /\ guard.pc = "authenticating"
    /\ ~guard.callbackCalled
    /\ \E error \in BOOLEAN, u \in UserKinds \cup {"none"} :
         IF error
         THEN /\ guard' = [guard EXCEPT !.pc = "done", !.outcome = "Unauthorized",
                                        !.callbackCalled = TRUE]
              /\ UNCHANGED request
         ELSE /\ request' = [request EXCEPT !.user = u]
              /\ IF u = "none"
                 THEN guard' = [guard EXCEPT !.pc = "waiting"]
                 ELSE IF hasUserId(u) \/ hasApiKeyId(u)
                 THEN guard' = [guard EXCEPT !.pc = "done", !.callbackCalled = TRUE,
                                             !.outcome = Checked(guard.strategy, u)]
                 ELSE guard' = [guard EXCEPT !.pc = "waiting", !.callbackCalled = TRUE]
    /\ UNCHANGED <<dbVars, callVars, sockVars, authVars, passportCalls>>

\* the middleware throws
passport_throw ==
    /\ guard.pc = "authenticating"
    /\ ~guard.callbackCalled
    /\ guard' = [guard EXCEPT !.pc = "done", !.outcome = "Unauthorized",
                              !.callbackCalled = TRUE]
    /\ UNCHANGED <<dbVars, callVars, sockVars, authVars, request, passportCalls>>

\* the 5 s timer fires
authenticate_timeout ==
    /\ guard.pc \in {"authenticating", "waiting"}
    /\ ~guard.callbackCalled
    /\ guard' = [guard EXCEPT !.pc = "done", !.outcome = "Unauthorized",
                              !.callbackCalled = TRUE]
    /\ UNCHANGED <<dbVars, callVars, sockVars, authVars, request, passportCalls>>

\* ------------------------------------------------------------------------
\* AuthService: service credentials (API keys)
\* ------------------------------------------------------------------------
\* what the API key actions leave alone
keyOthers ==
    <<rooms, roomMembers, messages, callVars, sockVars, guardVars, refreshTokens, scopeCheck,
      http>>

AuthResult(k, sc) == [kind |-> k, scopes |-> sc]
AuthFree(p) == authCall[p].pc \in {"idle", "done"}
AuthBegin(p, op, pc, k, t, u, res) ==
    authCall' = [authCall EXCEPT ![p] = [op |-> op, pc |-> pc, key |-> k, token |-> t,
                                         requester |-> u, row |-> NoRow, result |-> res]]
AuthFinish(p, res) == authCall' = [authCall EXCEPT ![p].pc = "done", ![p].result = res]

\* the forms of key text a caller may present: the issued JWT, the issued JWT after
\* its own exp has passed (it is still the text stored in the row's key column), a
\* user access JWT, and text that is no key at all
KeyTokens == {"jwt", "stale", "access", "bad"}

\* select ... where id = k limit 1 (a deleted row is not found)
SelectKey(k) == IF k \in KeyIds /\ apiKeys[k].exists THEN apiKeys[k] ELSE NoRow

\* update api_keys set lastUsedAt = now where id = k
StampKey(k) ==
    apiKeys' = IF k \in KeyIds /\ apiKeys[k].exists
               THEN [apiKeys EXCEPT ![k].lastUsedAt = 1]
               ELSE apiKeys

\* ApiKeyJwtStrategy.validate: passport has verified the JWT under the API-key secret;
\* the payload is an api-key payload with sub = k, or that of a user access token
ApiKeyJwtStrategy_validate(p) ==
    /\ AuthFree(p)
    /\ \E k \in KeyIds, t \in {"jwt", "access"} :
         IF t = "jwt"
         THEN AuthBegin(p, "strategy", "jwt_select", k, t, NoUser, AuthResult("none", {}))
         ELSE AuthBegin(p, "strategy", "done", "none", t, NoUser,
                        AuthResult("Unauthorized", {}))
    /\ UNCHANGED <<apiKeys, keyOthers>>

\* validateApiKey: jwtService.verify, then validateApiKeyJwt or the legacy lookup
validateApiKey_start(p) ==
    /\ AuthFree(p)
    /\ \E k \in KeyIds, t \in KeyTokens :
         IF t = "jwt"
         THEN AuthBegin(p, "validateApiKey", "jwt_select", k, t, NoUser,
                        AuthResult("none", {}))
         ELSE IF t = "access"
         THEN AuthBegin(p, "validateApiKey", "done", "none", t, NoUser,
                        AuthResult("null", {}))
         ELSE AuthBegin(p, "validateApiKey", "legacy_select",
                        IF t = "stale" THEN k ELSE "none", t, NoUser,
                        AuthResult("none", {}))
    /\ UNCHANGED <<apiKeys, keyOthers>>

\* validateApiKeyJwt: select where id and isActive, then the expiresAt test
validateApiKeyJwt_select(p) ==
    /\ authCall[p].pc = "jwt_select"
    /\ LET row == SelectKey(authCall[p].key) IN
         IF KeyRowValid(row)
         THEN authCall' = [authCall EXCEPT ![p].pc = "jwt_stamp", ![p].row = row]
         ELSE AuthFinish(p, AuthResult(IF authCall[p].op = "strategy" THEN "Unauthorized"
                                       ELSE "null", {}))
    /\ UNCHANGED <<apiKeys, keyOthers>>

\* ApiKeyJwtStrategy.validate: scopes of the payload, replaced by the row's when the
\* row has a non-empty list
StrategyScopes(payloadScopes, rowScopes) ==
    IF rowScopes # {} THEN rowScopes ELSE payloadScopes

\* validateApiKeyJwt: update lastUsedAt and return the row selected; the strategy then
\* builds request.user
validateApiKeyJwt_stamp(p) ==
    /\ authCall[p].pc = "jwt_stamp"
    /\ StampKey(authCall[p].key)
    /\ AuthFinish(p, IF authCall[p].op = "strategy"
                     THEN AuthResult("user", StrategyScopes(TokenScopes,
                                                            authCall[p].row.scopes))
                     ELSE AuthResult("key", authCall[p].row.scopes))
    /\ UNCHANGED keyOthers

\* validateApiKey, catch branch: select where key = text and isActive, expiresAt test
validateApiKey_legacySelect(p) ==
    /\ authCall[p].pc = "legacy_select"
    /\ LET row == SelectKey(authCall[p].key) IN
         IF KeyRowValid(row)
         THEN authCall' = [authCall EXCEPT ![p].pc = "legacy_stamp", ![p].row = row]
         ELSE AuthFinish(p, AuthResult("null", {}))
    /\ UNCHANGED <<apiKeys, keyOthers>>

\* validateApiKey, catch branch: update lastUsedAt and return the row
validateApiKey_legacyStamp(p) ==
    /\ authCall[p].pc = "legacy_stamp"
    /\ StampKey(authCall[p].key)
    /\ AuthFinish(p, AuthResult("key", authCall[p].row.scopes))
    /\ UNCHANGED keyOthers

\* apiKey.userId !== userId (the controller always passes a userId)
ownsKey(row, u) == row.userId = u

\* revokeApiKey / deleteApiKey up to the write: select by id, NotFound, ownership
KeyOwnerCheck(p, op, next, k, u) ==
    LET row == SelectKey(k) IN
      IF ~row.exists
      THEN AuthBegin(p, op, "done", k, "none", u, AuthResult("NotFound", {}))
      ELSE IF ~ownsKey(row, u)
      THEN AuthBegin(p, op, "done", k, "none", u, AuthResult("Unauthorized", {}))
      ELSE AuthBegin(p, op, next, k, "none", u, AuthResult("none", {}))

revokeApiKey_select(p) ==
    /\ AuthFree(p)
    /\ \E k \in KeyIds, u \in Users : KeyOwnerCheck(p, "revokeApiKey", "revoke_update", k, u)
    /\ UNCHANGED <<apiKeys, keyOthers>>

\* update api_keys set isActive = false where id = k
revokeApiKey_update(p) ==
    /\ authCall[p].pc = "revoke_update"
    /\ apiKeys' = IF apiKeys[authCall[p].key].exists
                  THEN [apiKeys EXCEPT ![authCall[p].key].isActive = FALSE]
                  ELSE apiKeys
    /\ AuthFinish(p, AuthResult("ok", {}))
    /\ UNCHANGED keyOthers

deleteApiKey_select(p) ==
    /\ AuthFree(p)
    /\ \E k \in KeyIds, u \in Users : KeyOwnerCheck(p, "deleteApiKey", "delete_delete", k, u)
    /\ UNCHANGED <<apiKeys, keyOthers>>

\* delete from api_keys where id = k
deleteApiKey_delete(p) ==
    /\ authCall[p].pc = "delete_delete"
    /\ apiKeys' = [apiKeys EXCEPT ![authCall[p].key] = NoRow]
    /\ AuthFinish(p, AuthResult("ok", {}))
    /\ UNCHANGED keyOthers

\* the clock passes the row's expiresAt
expireApiKey(k) ==
    /\ apiKeys[k].exists
    /\ ~apiKeys[k].expired
    /\ apiKeys' = [apiKeys EXCEPT ![k].expired = TRUE]
    /\ UNCHANGED <<authCall, keyOthers>>

\* the scopes recorded on the row are narrowed
narrowScopes(k) ==
    /\ apiKeys[k].exists
    /\ \E sc \in SUBSET apiKeys[k].scopes :
         /\ sc # apiKeys[k].scopes
         /\ apiKeys' = [apiKeys EXCEPT ![k].scopes = sc]
    /\ UNCHANGED <<authCall, keyOthers>>

NextKeys ==
    \/ \E p \in Procs : ApiKeyJwtStrategy_validate(p)
    \/ \E p \in Procs : validateApiKey_start(p)
    \/ \E p \in Procs : validateApiKeyJwt_select(p)
    \/ \E p \in Procs : validateApiKeyJwt_stamp(p)
    \/ \E p \in Procs : validateApiKey_legacySelect(p)
    \/ \E p \in Procs : validateApiKey_legacyStamp(p)
    \/ \E p \in Procs : revokeApiKey_select(p)
    \/ \E p \in Procs : revokeApiKey_update(p)
    \/ \E p \in Procs : deleteApiKey_select(p)
    \/ \E p \in Procs : deleteApiKey_delete(p)
    \/ \E k \in KeyIds : expireApiKey(k)
    \/ \E k \in KeyIds : narrowScopes(k)

SpecKeys == Init /\ [][NextKeys]_vars

\* ---- refresh tokens: refreshAccessToken and revokeRefreshToken ----

refreshOthers == <<dbVars, callVars, sockVars, guardVars, scopeCheck, http>>

\* what a caller may post as refreshToken: the stored refresh token, the same token
\* after its own exp, an access token, an API-key token, and text that is no token
RefreshInputs == {"refresh", "stale", "access", "api-key", "bad"}

\* jwtService.verify under the refresh secret, then payload.type === 'refresh'
refreshVerify(t) == t = "refresh"

\* select ... from refresh_tokens where token = t and isRevoked = false, ignoring
\* expiresAt
storedTokenOk_noExpiry(row) == ~row.isRevoked

\* select ... from refresh_tokens where token = t and isRevoked = false limit 1,
\* then !storedToken || expiresAt < now
storedTokenOk(row) == ~row.isRevoked /\ ~row.expired

refreshAccessToken_verify(p) ==
    /\ AuthFree(p)
    /\ \E t \in RefreshInputs, id \in RefreshIds :
         IF refreshVerify(t)
         THEN AuthBegin(p, "refreshAccessToken", "rt_select", id, t, NoUser,
                        AuthResult("none", {}))
         ELSE AuthBegin(p, "refreshAccessToken", "done", id, t, NoUser,
                        AuthResult("Unauthorized", {}))
    /\ UNCHANGED <<refreshTokens, refreshOthers>>

refreshAccessToken_select(p) ==
    /\ authCall[p].pc = "rt_select"
    /\ IF storedTokenOk(refreshTokens[authCall[p].key])
       THEN authCall' = [authCall EXCEPT ![p].pc = "rt_user"]
       ELSE AuthFinish(p, AuthResult("Unauthorized", {}))
    /\ UNCHANGED <<refreshTokens, refreshOthers>>

\* select the user of payload.sub (a row UsersService.remove may have deleted), then
\* sign the access token
refreshAccessToken_user(p) ==
    /\ authCall[p].pc = "rt_user"
    /\ \E found \in BOOLEAN :
         AuthFinish(p, AuthResult(IF found THEN "accessToken" ELSE "Unauthorized", {}))
    /\ UNCHANGED <<refreshTokens, refreshOthers>>

\* logout: update refresh_tokens set isRevoked = true where token = t
revokeRefreshToken(t) ==
    /\ refreshTokens' = [refreshTokens EXCEPT ![t].isRevoked = TRUE]
    /\ UNCHANGED <<authCall, refreshOthers>>

\* the clock passes the row's expiresAt
expireRefreshToken(t) ==
    /\ ~refreshTokens[t].expired
    /\ refreshTokens' = [refreshTokens EXCEPT ![t].expired = TRUE]
    /\ UNCHANGED <<authCall, refreshOthers>>

NextRefresh ==
    \/ \E p \in Procs : refreshAccessToken_verify(p)
    \/ \E p \in Procs : refreshAccessToken_select(p)
    \/ \E p \in Procs : refreshAccessToken_user(p)
    \/ \E t \in RefreshIds : revokeRefreshToken(t)
    \/ \E t \in RefreshIds : expireRefreshToken(t)

SpecRefresh == Init /\ [][NextRefresh]_vars

\* every place a token is presented: the socket handshake of socket.gateway.ts,
\* refreshAccessToken, validateApiKey and the API-key strategy. The calls of
\* AuthService share nothing but the rows they read, so one caller presents its tokens
\* one after the other
NextKinds ==
    \/ \E c \in Conns : mw_connect(c)
    \/ \E c \in Conns : mw_selectKey(c)
    \/ \E c \in Conns : mw_stamp(c)
    \/ \E c \in Conns : mw_selectLegacy(c)
    \/ \E p \in {1} : refreshAccessToken_verify(p)
    \/ \E p \in {1} : refreshAccessToken_select(p)
    \/ \E p \in {1} : refreshAccessToken_user(p)
    \/ \E p \in {1} : ApiKeyJwtStrategy_validate(p)
    \/ \E p \in {1} : validateApiKey_start(p)
    \/ \E p \in {1} : validateApiKeyJwt_select(p)
    \/ \E p \in {1} : validateApiKeyJwt_stamp(p)
    \/ \E p \in {1} : validateApiKey_legacySelect(p)
    \/ \E p \in {1} : validateApiKey_legacyStamp(p)

SpecKinds == Init /\ [][NextKinds]_vars

\* ---- scope helpers: hasScope, hasAnyScope, hasAllScopes ----

MaxScopes == 2

\* Scope.ALLOW_ALL
ALLOW_ALL == "allow-all"

\* scope strings: the super scope, an ordinary scope of the enum, a string outside it
ScopeNames == {ALLOW_ALL, "allow-all-chats", "rooms:read"}

\* string arrays of at most MaxScopes entries, duplicates and order included
ScopeLists == UNION {[1..n -> ScopeNames] : n \in 0..MaxScopes}

\* Array.prototype.includes
includes(arr, x) == \E i \in 1..Len(arr) : arr[i] = x

\* hasScope without the ALLOW_ALL branch
hasScope_noElevation(userScopes, requiredScope) ==
    IF Len(userScopes) = 0 THEN FALSE
    ELSE includes(userScopes, requiredScope)

hasScope(userScopes, requiredScope) ==
    IF Len(userScopes) = 0 THEN FALSE
    ELSE IF includes(userScopes, ALLOW_ALL) THEN TRUE
    ELSE includes(userScopes, requiredScope)

hasAnyScope(userScopes, requiredScopes) ==
    IF Len(userScopes) = 0 THEN FALSE
    ELSE IF includes(userScopes, ALLOW_ALL) THEN TRUE
    ELSE \E i \in 1..Len(requiredScopes) : includes(userScopes, requiredScopes[i])

hasAllScopes(userScopes, requiredScopes) ==
    IF Len(userScopes) = 0 THEN FALSE
    ELSE IF includes(userScopes, ALLOW_ALL) THEN TRUE
    ELSE \A i \in 1..Len(requiredScopes) : includes(userScopes, requiredScopes[i])

scopeOthers == <<dbVars, callVars, sockVars, guardVars, refreshTokens, authCall, http>>

ScopeCall(fn, res) ==
    /\ scopeCheck' = [scopeCheck EXCEPT !.fn = fn, !.result = res]
    /\ UNCHANGED scopeOthers

\* the arguments of the next helper call
scopeArgs ==
    /\ \E us \in ScopeLists, rs \in ScopeLists :
         scopeCheck' = [fn |-> "none", userScopes |-> us, requiredScopes |-> rs,
                        result |-> FALSE]
    /\ UNCHANGED scopeOthers

\* hasScope takes one required scope: the first of the required list
call_hasScope ==
    /\ Len(scopeCheck.requiredScopes) = 1
    /\ ScopeCall("hasScope", hasScope(scopeCheck.userScopes, scopeCheck.requiredScopes[1]))

call_hasAnyScope ==
    ScopeCall("hasAnyScope", hasAnyScope(scopeCheck.userScopes, scopeCheck.requiredScopes))

call_hasAllScopes ==
    ScopeCall("hasAllScopes", hasAllScopes(scopeCheck.userScopes, scopeCheck.requiredScopes))

InitScopes ==
    /\ InitDb
    /\ InitSock
    /\ gateway = "socket.gateway.ts"
    /\ InitGuard
    /\ InitAuth
    /\ scopeCheck \in [fn : {"none"}, userScopes : ScopeLists, requiredScopes : ScopeLists,
                       result : {FALSE}]
    /\ http = IdleHttp

NextScopes ==
    \/ scopeArgs
    \/ call_hasScope
    \/ call_hasAnyScope
    \/ call_hasAllScopes

SpecScopes == InitScopes /\ [][NextScopes]_vars

\* ---- HTTP: ScopeGuard, RoomsController.getRoomMessages / sendMessage ----

httpOthers == <<rooms, roomMembers, apiKeys, callVars, gateway, conn, connectedClients, subs,
                guardVars, refreshTokens, authCall, scopeCheck>>

ALLOW_ALL_CHATS == "allow-all-chats"
ALLOW_CREATE_ROOMS == "allow-create-rooms"
ALLOW_ALL_USERS == "allow-all-users"

\* the scope lists an API key may carry
KeyScopeLists == {<<>>, <<ALLOW_ALL>>, <<ALLOW_ALL_CHATS>>, <<ALLOW_CREATE_ROOMS>>,
                  <<ALLOW_ALL_USERS>>}

\* request.user as JwtStrategy.validate leaves it
JwtUser(u) == [type |-> "jwt", userId |-> u, apiKeyId |-> "none", scopes |-> <<>>]

\* request.user as ApiKeyJwtStrategy.validate leaves it: the owner of the row, the key's
\* id and its scopes
KeyUser(k, sc) == [type |-> "api-key", userId |-> apiKeys[k].userId, apiKeyId |-> k,
                   scopes |-> sc]

\* the principals CombinedAuthGuard lets through to a non-public endpoint
Principals ==
    {JwtUser(u) : u \in Users}
    \cup {KeyUser(k, sc) : k \in {x \in KeyIds : KeyRowValid(apiKeys[x])}, sc \in KeyScopeLists}

\* endpoints carrying no scope decorator at all
EndpointMeta_undecorated(e) == [scope |-> "none", any |-> <<>>, all |-> <<>>]

\* @RequireScope / @RequireAnyScope / @RequireAllScopes metadata of the endpoints
EndpointMeta(e) ==
    IF e = "findAllUsers"
    THEN [scope |-> ALLOW_ALL_USERS, any |-> <<>>, all |-> <<>>]
    ELSE [scope |-> "none", any |-> <<ALLOW_ALL_CHATS, ALLOW_CREATE_ROOMS>>, all |-> <<>>]

\* ScopeGuard.canActivate with JWT principals checked like API keys
ScopeGuard_checksEveryone(user, meta) ==
    IF user.type = "none" THEN TRUE
    ELSE IF meta.scope # "none" THEN hasScope(user.scopes, meta.scope)
    ELSE IF Len(meta.any) > 0 THEN hasAnyScope(user.scopes, meta.any)
    ELSE IF Len(meta.all) > 0 THEN hasAllScopes(user.scopes, meta.all)
    ELSE TRUE

\* ScopeGuard.canActivate: TRUE to let the request through, FALSE for ForbiddenException
ScopeGuard_canActivate(user, meta) ==
    IF user.type = "none" THEN TRUE
    ELSE IF user.type = "jwt" THEN TRUE
    ELSE IF meta.scope # "none" THEN hasScope(user.scopes, meta.scope)
    ELSE IF Len(meta.any) > 0 THEN hasAnyScope(user.scopes, meta.any)
    ELSE IF Len(meta.all) > 0 THEN hasAllScopes(user.scopes, meta.all)
    ELSE TRUE

\* @GetApiKey(): request.apiKey, which neither CombinedAuthGuard nor the strategies set
GetApiKey(req) == req.apiKey

\* RoomsController.hasAccessToRoom
hasAccessToRoom(room, apiKey, userScopes) ==
    IF apiKey = "undefined" THEN TRUE
    ELSE IF hasScope(userScopes, ALLOW_ALL) \/ hasScope(userScopes, ALLOW_ALL_CHATS) THEN TRUE
    ELSE IF hasScope(userScopes, ALLOW_CREATE_ROOMS) THEN room.ownerId = apiKey.userId
    ELSE FALSE

\* the request after the global guards: refused by ScopeGuard or handed to the handler
Guarded(e, r, user, f, inc, lim, rcpt, next) ==
    LET ok == ScopeGuard_canActivate(user, EndpointMeta(e)) IN
      http' = [pc |-> IF ok THEN next ELSE "done", endpoint |-> e, room |-> r, user |-> user,
               apiKey |-> "undefined", filterUserId |-> f, includeRecipients |-> inc,
               limit |-> lim, recipientId |-> rcpt,
               status |-> IF ok THEN "none" ELSE "Forbidden", body |-> <<>>]

DefaultLimit == 100

\* limit ? parseInt(limit, 10) : 100
LimitArgs == {1, DefaultLimit}

\* GET /rooms/:id/messages arrives
GET_messages ==
    /\ http.pc \in {"idle", "done"}
    /\ \E r \in RoomIds, user \in Principals, f \in Users \cup {NoUser}, inc \in BOOLEAN,
          lim \in LimitArgs :
         Guarded("getRoomMessages", r, user, f, inc, lim, NoUser, "findOne")
    /\ UNCHANGED <<messages, lastEvent, httpOthers>>

\* POST /rooms/:id/messages arrives
POST_messages ==
    /\ http.pc \in {"idle", "done"}
    /\ MayStartSend
    /\ \E r \in RoomIds, user \in Principals, rcpt \in Users \cup {NoUser, UnknownUser} :
         Guarded("sendMessage", r, user, NoUser, FALSE, 0, rcpt, "findOne")
    /\ UNCHANGED <<messages, lastEvent, httpOthers>>

\* GET /users arrives; UsersController.findAll lists the users
GET_users ==
    /\ http.pc \in {"idle", "done"}
    /\ \E user \in Principals :
         Guarded("findAllUsers", MissingRoom, user, NoUser, FALSE, 0, NoUser, "findAll")
    /\ UNCHANGED <<messages, lastEvent, httpOthers>>

UsersController_findAll ==
    /\ http.pc = "findAll"
    /\ http' = [http EXCEPT !.pc = "done", !.status = "OK"]
    /\ UNCHANGED <<messages, lastEvent, httpOthers>>

\* getRoomMessages / sendMessage up to the query: roomsService.findOne, the access
\* check, and for sendMessage the choice of the sender
Controller_findOne ==
    /\ http.pc = "findOne"
    /\ LET apiKey == GetApiKey(http)
           user == http.user
       IN  IF http.room \notin DOMAIN rooms
           THEN http' = [http EXCEPT !.pc = "done", !.status = "NotFound"]
           ELSE IF ~(user.userId # NoUser /\ apiKey = "undefined")
                   /\ apiKey # "undefined"
                   /\ ~hasAccessToRoom(rooms[http.room], apiKey, user.scopes)
           THEN http' = [http EXCEPT !.pc = "done", !.status = "Forbidden"]
           ELSE IF http.endpoint = "getRoomMessages"
           THEN http' = [http EXCEPT !.pc = "select"]
           ELSE IF user.userId # NoUser \/ apiKey # "undefined"
           THEN http' = [http EXCEPT !.pc = "insert"]
           ELSE http' = [http EXCEPT !.pc = "done", !.status = "NotFound"]
    /\ UNCHANGED <<messages, lastEvent, httpOthers>>

\* the first n entries of a sequence
Take(seq, n) == [i \in 1..(IF n < Len(seq) THEN n ELSE Len(seq)) |-> seq[i]]

\* Array.prototype.reverse
Reverse(seq) == [i \in 1..Len(seq) |-> seq[Len(seq) + 1 - i]]

\* a set of rows ordered by createdAt descending (ids grow with time)
Newest(rows) ==
    [i \in 1..Cardinality(rows) |->
       CHOOSE m \in rows : Cardinality({n \in rows : n.id > m.id}) = i - 1]

\* RoomsService.getRoomMessages without the recipient branch
getRoomMessages_authorOnly(tbl, r, limit, userId, includeRecipients) ==
    Take(Newest(IF userId # NoUser
                THEN {m \in tbl : m.roomId = r /\ m.userId = userId}
                ELSE {m \in tbl : m.roomId = r}), limit)

\* RoomsService.getRoomMessages: the three selects, newest first, limited
getRoomMessages(tbl, r, limit, userId, includeRecipients) ==
    Take(Newest(IF userId # NoUser /\ includeRecipients
                THEN {m \in tbl : m.roomId = r
                                  /\ (m.userId = userId \/ m.recipientId = userId)}
                ELSE IF userId # NoUser
                THEN {m \in tbl : m.roomId = r /\ m.userId = userId}
                ELSE {m \in tbl : m.roomId = r}), limit)

\* RoomsController.getRoomMessages: filterUserId || user?.userId || apiKey?.userId, the
\* query, and the rows oldest first
Controller_getRoomMessages ==
    /\ http.pc = "select"
    /\ LET userId == IF http.filterUserId # NoUser THEN http.filterUserId
                     ELSE http.user.userId
       IN  http' = [http EXCEPT
                      !.pc = "done", !.status = "OK",
                      !.body = Reverse(getRoomMessages(messages, http.room, http.limit,
                                                       userId, http.includeRecipients))]
    /\ UNCHANGED <<messages, lastEvent, httpOthers>>

\* RoomsController.sendMessage: roomsService.createMessage, then the broadcast
Controller_createMessage ==
    /\ http.pc = "insert"
    /\ IF MessageRowOk(http.room, http.recipientId)
       THEN /\ InsertMessageTo(http.room, http.user.userId, http.recipientId)
            /\ lastEvent' = RoomEmit("http", http.room, Cardinality(messages) + 1,
                                     http.recipientId)
            /\ http' = [http EXCEPT !.pc = "done", !.status = "Created"]
       ELSE /\ http' = [http EXCEPT !.pc = "done", !.status = "InternalServerError"]
            /\ UNCHANGED <<messages, lastEvent>>
    /\ UNCHANGED httpOthers

\* keys issued to either user or to nobody
InitHttp ==
    /\ rooms = [r \in Rooms |-> [ownerId |-> "u1", isActive |-> TRUE]]
    /\ roomMembers = {}
    /\ messages = {}
    /\ apiKeys \in [KeyIds -> {[IssuedKey EXCEPT !.userId = u] : u \in Users \cup {NoUser}}]
    /\ call = [p \in Procs |-> IdleCall]
    /\ base = [r \in Rooms |-> [u \in Users |-> "NONE"]]
    /\ InitSock
    /\ gateway = "socket.gateway.ts"
    /\ InitGuard
    /\ InitAuth
    /\ scopeCheck = NoScopeCheck
    /\ http = IdleHttp

NextHttp ==
    \/ GET_messages
    \/ POST_messages
    \/ GET_users
    \/ UsersController_findAll
    \/ Controller_findOne
    \/ Controller_getRoomMessages
    \/ Controller_createMessage

SpecHttp == InitHttp /\ [][NextHttp]_vars

\* a socket as the handshake of a user token leaves it, and as the handshake without
\* credentials leaves it
UserSocket == [NewSocket EXCEPT !.phase = "open", !.userId = TokenUser,
                                !.username = TokenUsername, !.authType = "user"]
AnonSocket == [NewSocket EXCEPT !.phase = "open"]

Entry(s) == [present |-> TRUE, userId |-> s.userId, apiKeyId |-> s.apiKeyId,
             username |-> s.username, authType |-> s.authType]

\* the router with one user socket and one anonymous socket connected, subscribed to
\* nothing yet, and the API key revoked: the HTTP senders are the logged-in users
InitRoute ==
    /\ rooms = [r \in Rooms |-> [ownerId |-> "u1", isActive |-> TRUE]]
    /\ roomMembers = {}
    /\ messages = {}
    /\ apiKeys = [k \in KeyIds |-> [IssuedKey EXCEPT !.isActive = FALSE]]
    /\ call = [p \in Procs |-> IdleCall]
    /\ base = [r \in Rooms |-> [u \in Users |-> "NONE"]]
    /\ conn = [c \in Conns |-> IF c = "s1" THEN UserSocket ELSE AnonSocket]
    /\ connectedClients = [c \in Conns |-> Entry(conn[c])]
    /\ subs = {}
    /\ lastEvent = Event("none", "none", "none")
    /\ gateway = "socket.gateway.ts"
    /\ InitGuard
    /\ InitAuth
    /\ scopeCheck = NoScopeCheck
    /\ http = IdleHttp

\* the message router: sockets subscribe and send, and the HTTP endpoint sends
NextRoute ==
    \/ \E c \in Conns : handleDisconnect(c)
    \/ \E c \in Conns : handleJoinRoom(c)
    \/ \E c \in Conns : handleLeaveRoom(c)
    \/ \E c \in Conns : handleMessage_begin(c)
    \/ \E c \in Conns : handleMessage_to(c)
    \/ \E c \in Conns : handleMessage_insert(c)
    \/ POST_messages
    \/ Controller_findOne
    \/ Controller_createMessage

SpecRoute == InitRoute /\ [][NextRoute]_vars

\* the membership manager alone: concurrent join/leave/ban/unban calls
Next ==
    \/ \E p \in Procs : joinRoom_start(p)
    \/ \E p \in Procs : joinRoom_selMember(p)
    \/ \E p \in Procs : joinRoom_update(p)
    \/ \E p \in Procs : joinRoom_insert(p)
    \/ \E p \in Procs : leaveRoom_start(p)
    \/ \E p \in Procs : leaveRoom_delete(p)
    \/ \E p \in Procs : banUser_start(p)
    \/ \E p \in Procs : banUser_selMember(p)
    \/ \E p \in Procs : banUser_insert(p)
    \/ \E p \in Procs : banUser_update(p)
    \/ \E p \in Procs : unbanUser_start(p)
    \/ \E p \in Procs : unbanUser_selMember(p)
    \/ \E p \in Procs : unbanUser_update(p)
    \/ Collect

Spec == Init /\ [][Next]_vars

\* the membership manager together with the send paths and room deactivation
NextSend ==
    \/ \E p \in Procs : joinRoom_start(p)
    \/ \E p \in Procs : joinRoom_selMember(p)
    \/ \E p \in Procs : joinRoom_update(p)
    \/ \E p \in Procs : joinRoom_insert(p)
    \/ \E p \in Procs : leaveRoom_start(p)
    \/ \E p \in Procs : leaveRoom_delete(p)
    \/ \E p \in Procs : banUser_start(p)
    \/ \E p \in Procs : banUser_selMember(p)
    \/ \E p \in Procs : banUser_insert(p)
    \/ \E p \in Procs : banUser_update(p)
    \/ \E p \in Procs : unbanUser_start(p)
    \/ \E p \in Procs : unbanUser_selMember(p)
    \/ \E p \in Procs : unbanUser_update(p)
    \/ \E p \in Procs : create_start(p)
    \/ \E p \in Procs : create_canSend(p)
    \/ \E p \in Procs : create_insert(p)
    \/ \E p \in Procs : wsMessage(p)
    \/ \E p \in Procs : postMessage(p)
    \/ \E r \in Rooms : deactivate(r)
    \/ Collect

SpecSend == Init /\ [][NextSend]_vars

\* the socket gateways: handshake, events, disconnect
BannedRow == [id |-> 1, roomId |-> "r1", userId |-> TokenUser, status |-> "BAN",
              joinedIn |-> "inserted"]

InitSockets ==
    /\ rooms = [r \in Rooms |-> [ownerId |-> "u1", isActive |-> TRUE]]
    /\ roomMembers \in {{}, {BannedRow}}
    /\ messages = {}
    /\ apiKeys \in [KeyIds -> {IssuedKey, [IssuedKey EXCEPT !.isActive = FALSE],
                                [IssuedKey EXCEPT !.expired = TRUE]}]
    /\ call = [p \in Procs |-> IdleCall]
    /\ base = [r \in Rooms |-> [u \in Users |-> "NONE"]]
    /\ InitSock
    /\ gateway \in Gateways
    /\ InitGuard
    /\ InitAuth
    /\ scopeCheck = NoScopeCheck
    /\ http = IdleHttp

NextSock ==
    \/ \E c \in Conns : mw_connect(c)
    \/ \E c \in Conns : mw_selectKey(c)
    \/ \E c \in Conns : mw_stamp(c)
    \/ \E c \in Conns : mw_selectLegacy(c)
    \/ \E c \in Conns : hc_connect(c)
    \/ \E c \in Conns : hc_verified(c)
    \/ \E c \in Conns : handleDisconnect(c)
    \/ \E c \in Conns : handleMessage_begin(c)
    \/ \E c \in Conns : handleMessage_insert(c)
    \/ \E c \in Conns : handleJoinRoom(c)
    \/ \E c \in Conns : handleLeaveRoom(c)
    \/ \E c \in Conns : handleJoin(c)
    \/ \E c \in Conns : handleLeave(c)
    \/ \E c \in Conns : hc_handleMessage_begin(c)
    \/ \E c \in Conns : hc_handleMessage_canSend(c)
    \/ \E c \in Conns : hc_handleJoinRoom(c)
    \/ \E c \in Conns : hc_handleLeaveRoom(c)
    \/ \E c \in Conns : handleJoinRoomMember_begin(c)
    \/ \E c \in Conns : handleJoinRoomMember_selMember(c)
    \/ \E c \in Conns : handleJoinRoomMember_insert(c)
    \/ \E c \in Conns : handleJoinRoomMember_update(c)

SpecSock == InitSockets /\ [][NextSock]_vars

\* the HTTP guard in front of the controllers
NextGuard ==
    \/ receive
    \/ canActivate_begin
    \/ passport_callback
    \/ passport_next
    \/ passport_throw
    \/ authenticate_timeout

SpecGuard == Init /\ [][NextGuard]_vars

\* the guard with its timers and callbacks scheduled: the event loop runs the 5 s
\* timer and the setImmediate callback it has queued, and a request arrives
SpecGuardLive == Init /\ [][NextGuard]_vars /\ WF_vars(NextGuard)

\* ------------------------------------------------------------------------
\* Sequential meaning of the membership calls, for comparing concurrent runs
\* ------------------------------------------------------------------------
SeqStep(st, c) ==
    LET r == c.roomId
        u == c.userId
        none == [st |-> st, res |-> NoResult]
        fail(k) == [st |-> st, res |-> Res(k, "NONE")]
        set(s, res) == [st |-> [st EXCEPT ![r][u] = s], res |-> res]
    IN  IF c.op = "idle" THEN none
        ELSE IF r \notin DOMAIN rooms THEN fail("NotFound")
        ELSE IF c.op = "join" THEN set("ACTIVE", Res("row", "ACTIVE"))
        ELSE IF c.op = "leave" THEN
             IF st[r][u] = "NONE" THEN fail("NotFound")
             ELSE set("NONE", Res("row", st[r][u]))
        ELSE IF c.op = "ban" THEN
             IF notOwner(r, c.actor) THEN fail("Forbidden")
             ELSE IF targetsOwner(r, u) THEN fail("Conflict")
             ELSE set("BAN", Res("row", "BAN"))
        ELSE IF c.op = "unban" THEN
             IF notOwner(r, c.actor) THEN fail("Forbidden")
             ELSE IF st[r][u] = "NONE" THEN fail("NotFound")
             ELSE IF st[r][u] # "BAN" THEN fail("Conflict")
             ELSE set("ACTIVE", Res("row", "ACTIVE"))
        ELSE none

RECURSIVE SerialRun(_, _, _)
SerialRun(order, st, res) ==
    IF order = <<>> THEN [st |-> st, res |-> res]
    ELSE LET o == SeqStep(st, call[Head(order)])
         IN  SerialRun(Tail(order), o.st, [res EXCEPT ![Head(order)] = o.res])

Orders == {o \in [1..NumCalls -> Procs] : \A i, j \in 1..NumCalls : o[i] = o[j] => i = j}

StatusIn(tbl, r, u) == getMemberStatus(tbl, r, u)
Acting(op, r, u) ==
    \E p \in Procs : call'[p] # call[p] /\ call[p].op = op
                     /\ call[p].roomId = r /\ call[p].userId = u

\* ------------------------------------------------------------------------
\* Claims
\* ------------------------------------------------------------------------

\* C1: every change of a pair's membership status is one edge of the graph, made
\* by the call that owns the edge: NONE->ACTIVE by joinRoom, NONE->BAN and
\* ACTIVE->BAN by banUser only, BAN->ACTIVE by unbanUser or joinRoom, and
\* ACTIVE->NONE, BAN->NONE by leaveRoom.
C1_StatusGraph ==
    [][\A r \in Rooms, u \in Users :
         LET s == StatusIn(roomMembers, r, u)
             t == StatusIn(roomMembers', r, u)
         IN  s # t =>
               \/ s = "NONE" /\ t = "ACTIVE" /\ Acting("join", r, u)
               \/ s \in {"NONE", "ACTIVE"} /\ t = "BAN" /\ Acting("ban", r, u)
               \/ s = "BAN" /\ t = "ACTIVE"
                    /\ (Acting("unban", r, u) \/ Acting("join", r, u))
               \/ s \in {"ACTIVE", "BAN"} /\ t = "NONE" /\ Acting("leave", r, u)]_vars

\* C1 witness: a banUser call has put a pair that had no row into BAN
C1_Witness ==
    \E p \in Procs :
        /\ call[p].op = "ban" /\ call[p].pc = "done"
        /\ call[p].result = Res("row", "BAN")
        /\ base[call[p].roomId][call[p].userId] = "NONE"
        /\ StatusIn(roomMembers, call[p].roomId, call[p].userId) = "BAN"
        /\ \A q \in Procs \ {p} : call[q].op = "idle"

\* C2: the owner's row in the owner's own room never has status BAN
C2_OwnerNeverBanned ==
    \A m \in roomMembers : m.userId = rooms[m.roomId].ownerId => m.status # "BAN"

\* C2 witness: the owner is a member and a ban aimed at the owner was refused
C2_Witness ==
    \E p \in Procs :
        /\ call[p].op = "ban" /\ call[p].pc = "done"
        /\ call[p].roomId \in Rooms
        /\ call[p].userId = rooms[call[p].roomId].ownerId
        /\ call[p].result.kind = "Conflict"
        /\ StatusIn(roomMembers, call[p].roomId, call[p].userId) = "ACTIVE"

\* C4: at most one membership row per (room, user) pair
C4_OneRowPerPair ==
    \A m, n \in roomMembers : (m.roomId = n.roomId /\ m.userId = n.userId) => m = n

\* C4 witness: two joinRoom calls raced for a new pair and exactly one row exists
C4_Witness ==
    \E p, q \in Procs :
        /\ p # q
        /\ call[p].op = "join" /\ call[q].op = "join"
        /\ call[p].roomId = call[q].roomId /\ call[p].userId = call[q].userId
        /\ call[p].pc = "done" /\ call[q].pc = "done"
        /\ call[p].result = Res("row", "ACTIVE")
        /\ call[q].result.kind = "UniqueViolation"
        /\ Cardinality(RowsOf(roomMembers, call[p].roomId, call[p].userId)) = 1

\* C5: a joinRoom whose insert meets an existing row of the pair does not fail: the
\* insert is a no-op and the call returns the pair's row
C5_LoserReturnsRow ==
    [][\A p \in Procs :
         (/\ call[p].pc = "join_insert" /\ call'[p].pc = "done"
          /\ RowsOf(roomMembers, call[p].roomId, call[p].userId) # {})
         => /\ roomMembers' = roomMembers
            /\ call'[p].result.kind = "row"]_vars

\* C6: when the calls of a batch have all returned, the final statuses and every
\* call's result are those of some sequential order of the same calls
C6_Serializable ==
    Quiescent =>
        \E o \in Orders :
            LET out == SerialRun(o, base, [p \in Procs |-> NoResult])
            IN  /\ out.st = StatusMap
                /\ \A p \in Procs : out.res[p] = call[p].result

\* C3: a send by a sender whose status is BAN when the send is checked inserts
\* no message row, on every send path
C3_BannedSendRejected ==
    [][\A m \in messages' \ messages :
         m.userId \in Users =>
            \/ \E p \in Procs : call[p].pc = "create_insert" /\ call'[p].pc = "done"
            \/ StatusIn(roomMembers, m.roomId, m.userId) # "BAN"]_vars

\* C8: a deactivated room gets no new membership row and no new message
C8_InactiveRoomClosed ==
    [][\A r \in Rooms :
         ~rooms[r].isActive =>
            /\ \A m \in roomMembers' : m.roomId = r => \E n \in roomMembers : n.id = m.id
            /\ \A m \in messages' : m.roomId = r => m \in messages]_vars

\* C7: a 'message', 'join-room' or 'join-room-member' handler starts only on a
\* connection whose handshake authentication has completed
C7_NoEventBeforeAuth ==
    [][\A c \in Conns :
         (/\ lastEvent' # lastEvent
          /\ lastEvent'.conn = c
          /\ lastEvent'.name \in {"message", "join-room", "join-room-member"}
          /\ conn[c].pc = "idle")
         => conn[c].phase = "open"]_vars

\* C10: a handshake that carried both a token and an apiKey ends rejected, with no
\* identity bound to the connection
C10_BothCredentialsRejected ==
    \A c \in Conns :
        (/\ lastEvent.name = "connection" /\ lastEvent.conn = c
         /\ lastEvent.token # "none" /\ lastEvent.apiKey # "none")
        => /\ lastEvent.outcome = "rejected"
           /\ conn[c].phase # "open"
           /\ conn[c].userId = NoUser /\ conn[c].apiKeyId = "none"

\* what the request carries, read off the request alone
BearerPresent ==
    /\ request.authorization.present
    /\ Len(request.authorization.value) >= 7
    /\ SubSeq(request.authorization.value, 1, 7) = <<"B", "e", "a", "r", "e", "r", " ">>
ApiKeyPresent ==
    \/ request.xApiKey.present /\ request.xApiKey.value # <<>>
    \/ request.queryApiKey.present /\ request.queryApiKey.value # <<>>

\* C9: on a non-public endpoint the guard answers BadRequest when a Bearer
\* Authorization header and an API key (header or query parameter) are both present,
\* and Unauthorized when neither is; in both cases no strategy was handed to passport
C9_BothOrNeither ==
    (~request.isPublic /\ guard.pc \notin {"idle", "received"}) =>
        /\ (BearerPresent /\ ApiKeyPresent) =>
              (guard.pc = "done" /\ guard.outcome = "BadRequest" /\ passportCalls = <<>>)
        /\ (~BearerPresent /\ ~ApiKeyPresent) =>
              (guard.pc = "done" /\ guard.outcome = "Unauthorized" /\ passportCalls = <<>>)

\* C9 witness: a Bearer header together with an apiKey query parameter, and no
\* X-API-Key header, was answered BadRequest without a strategy being run
C9_Witness ==
    /\ ~request.isPublic
    /\ guard.pc = "done" /\ guard.outcome = "BadRequest"
    /\ BearerPresent
    /\ ~request.xApiKey.present /\ request.queryApiKey.value = <<"k">>
    /\ passportCalls = <<>>

\* handshake credentials that are missing, invalid, expired or revoked: no token or
\* one that does not verify, and no key or one without an active, unexpired row
CredentialFails(t, k) ==
    /\ t \in {"none", "bad", "expired"}
    /\ k \in KeyIds => (~apiKeys[k].exists \/ ~apiKeys[k].isActive \/ apiKeys[k].expired)

\* C11: the handshake of a connection whose credentials are missing, invalid,
\* expired or revoked ends with the connection admitted and no identity bound
C11_SoftFail ==
    [][\A c \in Conns :
         (/\ conn[c].phase \in {"new", "mw_selectKey", "mw_stamp", "mw_selectLegacy",
                                "verifying"}
          /\ conn'[c].phase \notin {"new", "mw_selectKey", "mw_stamp", "mw_selectLegacy",
                                    "verifying"}
          /\ lastEvent'.name # "disconnect")
         => /\ conn'[c].phase = "open"
            /\ lastEvent'.name = "connection" /\ lastEvent'.conn = c
            /\ CredentialFails(lastEvent'.token, lastEvent'.apiKey) =>
                  /\ conn'[c].userId = NoUser /\ conn'[c].apiKeyId = "none"
                  /\ conn'[c].authType = "none"
                  /\ lastEvent'.outcome = "none"]_vars

\* C11 witness: a handshake with an expired token and a revoked key was admitted
\* and the connection is registered without identity
C11_Witness ==
    \E c \in Conns :
        /\ lastEvent.name = "connection" /\ lastEvent.conn = c
        /\ lastEvent.token = "expired" /\ lastEvent.apiKey \in KeyIds
        /\ ~apiKeys[lastEvent.apiKey].isActive
        /\ conn[c].phase = "open" /\ conn[c].userId = NoUser
        /\ connectedClients[c].present /\ connectedClients[c].authType = "none"

\* C12: a 'message' addressed to a room, or a 'join-room-member', on a connection
\* with no identity bound is answered with an authentication error, and the step
\* writes no message and no membership row
C12_AnonymousRefused ==
    [][\A c \in Conns :
         (/\ lastEvent' # lastEvent
          /\ lastEvent'.conn = c
          /\ lastEvent'.name \in {"message", "join-room-member"}
          /\ lastEvent'.room # "none"
          /\ conn[c].userId = NoUser /\ conn[c].apiKeyId = "none")
         => /\ lastEvent'.outcome = "unauthorized"
            /\ messages' = messages
            /\ roomMembers' = roomMembers]_vars

\* C13: while a connection that authenticated stays open, what the handshake bound to
\* it (userId, apiKeyId, authType, display name), on the socket and in the registry,
\* does not change
C13_BindingImmutable ==
    [][\A c \in Conns :
         (/\ conn[c].phase = "open" /\ conn'[c].phase = "open"
          /\ connectedClients[c].present
          /\ connectedClients[c].authType # "none")
         => /\ conn'[c].userId = conn[c].userId
            /\ conn'[c].apiKeyId = conn[c].apiKeyId
            /\ conn'[c].authType = conn[c].authType
            /\ conn'[c].username = conn[c].username
            /\ connectedClients'[c] = connectedClients[c]]_vars

C15_RowScopesAuthoritative ==
    [][\A p \in Procs :
         (/\ authCall[p].op = "strategy"
          /\ authCall[p].pc = "jwt_stamp"
          /\ authCall'[p].pc = "done")
         => authCall'[p].result.scopes = authCall[p].row.scopes]_vars

\* C16: a key whose row is deleted, revoked or expired stays that way; a revokeApiKey
\* or deleteApiKey that returns has left the row inactive or gone; and a validateApiKey
\* or validateApiKeyJwt whose select meets no active, unexpired row returns null
C16_InvalidKeyStaysInvalid ==
    [][/\ \A k \in KeyIds :
            (~apiKeys[k].exists \/ ~apiKeys[k].isActive \/ apiKeys[k].expired)
            => (~apiKeys'[k].exists \/ ~apiKeys'[k].isActive \/ apiKeys'[k].expired)
       /\ \A p \in Procs :
            /\ (authCall[p].pc \in {"revoke_update", "delete_delete"}
                /\ authCall'[p].pc = "done")
               => (\/ ~apiKeys'[authCall[p].key].exists
                   \/ ~apiKeys'[authCall[p].key].isActive)
            /\ (/\ authCall[p].pc \in {"jwt_select", "legacy_select"}
                /\ authCall[p].op = "validateApiKey"
                /\ authCall'[p] # authCall[p]
                /\ LET row == SelectKey(authCall[p].key)
                   IN  ~row.exists \/ ~row.isActive \/ row.expired)
               => /\ authCall'[p].pc = "done"
                  /\ authCall'[p].result.kind = "null"
                  /\ apiKeys' = apiKeys]_vars

\* C16 witness: the owner's revokeApiKey has returned, the row is inactive and not
\* expired, and a validateApiKey of the issued token has returned null
C16_Witness ==
    \E p, q \in Procs :
        /\ authCall[p].op = "revokeApiKey" /\ authCall[p].pc = "done"
        /\ authCall[p].result.kind = "ok"
        /\ authCall[q].op = "validateApiKey" /\ authCall[q].pc = "done"
        /\ authCall[q].token = "jwt" /\ authCall[q].key = authCall[p].key
        /\ authCall[q].result.kind = "null"
        /\ apiKeys[authCall[p].key].exists
        /\ ~apiKeys[authCall[p].key].isActive /\ ~apiKeys[authCall[p].key].expired

\* C17: revokeApiKey by a requester who does not own the key fails with an
\* authorization (forbidden) error and leaves the row's active flag as it was
C17_RevokeNotOwner ==
    [][\A p \in Procs :
         (/\ authCall'[p] # authCall[p]
          /\ authCall'[p].op = "revokeApiKey"
          /\ authCall[p].pc \in {"idle", "done"}
          /\ SelectKey(authCall'[p].key).exists
          /\ SelectKey(authCall'[p].key).userId # authCall'[p].requester)
         => /\ authCall'[p].pc = "done"
            /\ authCall'[p].result.kind = "Forbidden"
            /\ apiKeys' = apiKeys]_vars

\* C18: a refresh-token row that is revoked or expired stays so; a refreshAccessToken
\* whose lookup meets such a row fails with Unauthorized and mints nothing; an access
\* token is minted only from a call that found the row unrevoked and unexpired; and no
\* step of refreshAccessToken changes the stored rows
C18_RevokedRefreshFails ==
    [][/\ \A t \in RefreshIds :
            /\ refreshTokens[t].isRevoked => refreshTokens'[t].isRevoked
            /\ refreshTokens[t].expired => refreshTokens'[t].expired
       /\ \A p \in Procs :
            /\ (/\ authCall[p].pc = "rt_select"
                /\ authCall'[p] # authCall[p]
                /\ (\/ refreshTokens[authCall[p].key].isRevoked
                    \/ refreshTokens[authCall[p].key].expired))
               => /\ authCall'[p].pc = "done"
                  /\ authCall'[p].result.kind = "Unauthorized"
            /\ (authCall'[p] # authCall[p] /\ authCall'[p].result.kind = "accessToken")
               => authCall[p].pc = "rt_user" /\ authCall[p].token = "refresh"
            /\ (authCall'[p] # authCall[p] /\ authCall'[p].op = "refreshAccessToken")
               => refreshTokens' = refreshTokens]_vars

\* C18 witness: one call has minted an access token from the stored refresh token,
\* the row has since been revoked (and is not expired), and another call presenting the
\* same token has failed
C18_Witness ==
    \E p, q \in Procs :
        /\ p # q
        /\ authCall[p].op = "refreshAccessToken" /\ authCall[p].pc = "done"
        /\ authCall[p].result.kind = "accessToken"
        /\ authCall[q].op = "refreshAccessToken" /\ authCall[q].pc = "done"
        /\ authCall[q].token = "refresh" /\ authCall[q].key = authCall[p].key
        /\ authCall[q].result.kind = "Unauthorized"
        /\ refreshTokens[authCall[p].key].isRevoked
        /\ ~refreshTokens[authCall[p].key].expired

\* C19: hasScope(scopes, required) returns true exactly when required is in scopes or
\* "allow-all" is in scopes
C19_HasScope ==
    scopeCheck.fn = "hasScope"
    => (scopeCheck.result
        <=> \E i \in 1..Len(scopeCheck.userScopes) :
               scopeCheck.userScopes[i] \in {scopeCheck.requiredScopes[1], "allow-all"})

\* C19 witness: hasScope has returned true for a required scope the list does not
\* hold, the list holding "allow-all"
C19_Witness ==
    /\ scopeCheck.fn = "hasScope"
    /\ scopeCheck.result
    /\ \A i \in 1..Len(scopeCheck.userScopes) :
          scopeCheck.userScopes[i] # scopeCheck.requiredScopes[1]

\* C20: hasAnyScope returns true exactly when "allow-all" or some required scope is in
\* scopes, and hasAllScopes exactly when "allow-all" or every required scope is in
\* scopes, empty scope lists and empty required lists included
C20_AnyAllScopes ==
    LET held == {scopeCheck.userScopes[i] : i \in 1..Len(scopeCheck.userScopes)}
        required == {scopeCheck.requiredScopes[i] : i \in 1..Len(scopeCheck.requiredScopes)}
    IN  /\ scopeCheck.fn = "hasAnyScope"
           => (scopeCheck.result <=> ("allow-all" \in held \/ required \cap held # {}))
        /\ scopeCheck.fn = "hasAllScopes"
           => (scopeCheck.result <=> ("allow-all" \in held \/ required \subseteq held))

\* C29: every authenticate the guard starts eventually resolves or rejects, whatever
\* the passport middleware does
C29_AuthenticateSettles ==
    (guard.pc \in {"authenticating", "waiting"}) ~> (guard.pc = "done")

\* C27: a 'message', 'join-room' or 'leave-room' event the handler finds malformed
\* gets an 'error' event sent to its own connection and to nobody else, leaves the
\* connection open, and changes no message, membership or subscription
C27_MalformedGetsError ==
    [][(/\ lastEvent' # lastEvent
        /\ lastEvent'.name \in {"message", "join-room", "leave-room"}
        /\ lastEvent'.outcome \in {"invalid", "missing-roomId"})
       => /\ lastEvent'.reply = "error"
          /\ lastEvent'.to = {}
          /\ conn'[lastEvent'.conn].phase = conn[lastEvent'.conn].phase
          /\ messages' = messages
          /\ roomMembers' = roomMembers
          /\ subs' = subs]_vars

\* C28: once a connection has disconnected, no step taken for it persists a message,
\* broadcasts one or changes a membership row, and the disconnect itself leaves the
\* messages and membership rows as they were
C28_NothingAfterDisconnect ==
    [][\A c \in Conns :
         /\ (conn[c].phase = "disconnected" /\ conn'[c] # conn[c])
            => /\ messages' = messages
               /\ roomMembers' = roomMembers
               /\ (lastEvent' # lastEvent => lastEvent'.to = {} /\ lastEvent'.id = 0)
         /\ (conn[c].phase # "disconnected" /\ conn'[c].phase = "disconnected")
            => messages' = messages /\ roomMembers' = roomMembers]_vars

\* C30: a room's 'message' broadcast reaches only connections whose user is an ACTIVE
\* member of the room, and only such connections get subscribed to the room
C30_MembersOnlyReceive ==
    [][/\ (lastEvent' # lastEvent /\ lastEvent'.name = "message"
           /\ lastEvent'.room \in Rooms)
          => \A x \in lastEvent'.to :
               getMemberStatus(roomMembers, lastEvent'.room, connectedClients[x].userId)
               = "ACTIVE"
       /\ \A x \in subs' \ subs :
            getMemberStatus(roomMembers', x[2], connectedClients[x[1]].userId) = "ACTIVE"]_vars

\* ---- HTTP claims ----

\* the request has passed or been refused by the guards and the handler has finished
Answered(e) == http.pc = "done" /\ http.endpoint = e

\* the principal holds one of the scopes, or allow-all
HoldsOneOf(user, S) ==
    \E i \in 1..Len(user.scopes) : user.scopes[i] \in S \cup {ALLOW_ALL}

RequiredOf(e) ==
    IF e = "findAllUsers" THEN {ALLOW_ALL_USERS} ELSE {ALLOW_ALL_CHATS, ALLOW_CREATE_ROOMS}

\* C21: a request of a JWT principal is never refused as forbidden, whatever the endpoint
\* requires; a request of an API-key principal is refused as forbidden exactly when the
\* key holds none of the scopes the endpoint requires
C21_ScopesBindKeysOnly ==
    http.pc # "idle" =>
        /\ http.user.type = "jwt" => http.status # "Forbidden"
        /\ http.user.type = "api-key" =>
             (http.status = "Forbidden" <=> ~HoldsOneOf(http.user, RequiredOf(http.endpoint)))

\* a JWT principal, holding no scopes, was served the users list that requires
\* allow-all-users
C21_Witness ==
    /\ Answered("findAllUsers")
    /\ http.user.type = "jwt"
    /\ http.status = "OK"

\* C22: reading a room's messages, an API key holding allow-all-chats is served for every
\* room there is, and an API key holding no scopes is refused as forbidden
C22_ReadByScope ==
    (Answered("getRoomMessages") /\ http.user.type = "api-key") =>
        /\ (/\ http.room \in DOMAIN rooms
            /\ \E i \in 1..Len(http.user.scopes) : http.user.scopes[i] = ALLOW_ALL_CHATS)
             => http.status = "OK"
        /\ http.user.scopes = <<>> => http.status = "Forbidden"

\* a key holding only allow-all-chats, owned by somebody else than the room's creator,
\* was served the room's messages
C22_Witness ==
    /\ Answered("getRoomMessages")
    /\ http.user.type = "api-key"
    /\ http.user.scopes = <<ALLOW_ALL_CHATS>>
    /\ http.room \in DOMAIN rooms
    /\ rooms[http.room].ownerId # http.user.userId
    /\ http.status = "OK"

\* C23: an API key holding allow-create-rooms and neither allow-all nor allow-all-chats is
\* refused as forbidden when it reads or sends in a room its owner did not create
C23_CreatorOnly ==
    (/\ http.pc = "done"
     /\ http.endpoint \in {"getRoomMessages", "sendMessage"}
     /\ http.user.type = "api-key"
     /\ http.user.scopes = <<ALLOW_CREATE_ROOMS>>
     /\ http.room \in DOMAIN rooms
     /\ rooms[http.room].ownerId # http.user.userId)
        => http.status = "Forbidden"

\* the rows of the table a fetch for R with includeRecipients has to weigh
SentTo(R) == {m \in messages : m.roomId = http.room /\ m.recipientId = R}

InBody(m) == \E i \in 1..Len(http.body) : http.body[i] = m

\* a fetch of the room's messages for userId = R with includeRecipients = true was served
FetchedFor(R) ==
    /\ Answered("getRoomMessages")
    /\ http.status = "OK"
    /\ http.includeRecipients
    /\ http.filterUserId = R

\* C24 as stated: every message of the room persisted with recipientId = R is in the
\* messages fetched with userId = R and includeRecipients = true
C24_RecipientAlwaysIncluded ==
    \A R \in Users : FetchedFor(R) => \A m \in SentTo(R) : InBody(m)

\* C24: a message of the room persisted with recipientId = R is in the messages fetched
\* with userId = R and includeRecipients = true when fewer than limit newer messages of
\* the room have R as author or recipient; a message whose author and recipient are both
\* somebody else is never in them; and the messages come oldest first
C24_RecipientRoundTrip ==
    \A R \in Users : FetchedFor(R) =>
        /\ \A m \in SentTo(R) :
             Cardinality({n \in messages : /\ n.roomId = http.room
                                           /\ n.userId = R \/ n.recipientId = R
                                           /\ n.id > m.id}) < http.limit
               => InBody(m)
        /\ \A m \in messages : (m.userId # R /\ m.recipientId # R) => ~InBody(m)
        /\ \A i, j \in 1..Len(http.body) : i < j => http.body[i].id < http.body[j].id

\* a message written by somebody else to R came back in the fetch for R
C24_Witness ==
    \E R \in Users : /\ FetchedFor(R)
                     /\ \E m \in SentTo(R) : m.userId # R /\ InBody(m)

\* ---- the message router ----

\* C25: a 'message' broadcast carrying an id is made only once the row with that id is in
\* the messages table; when the insert of a socket's message fails nothing is published to
\* the room and the sending socket alone is sent 'error'; when the insert of an HTTP
\* message fails nothing is published at all
C25_PersistThenPublish ==
    [][/\ (lastEvent' # lastEvent /\ lastEvent'.name = "message" /\ lastEvent'.id # 0)
            => \E m \in messages' : m.id = lastEvent'.id /\ m.roomId = lastEvent'.room
       /\ \A c \in Conns :
            (conn[c].pc = "msg_insert" /\ conn'[c].pc # "msg_insert" /\ messages' = messages)
              => /\ lastEvent'.conn = c
                 /\ lastEvent'.reply = "error"
                 /\ lastEvent'.to = {}
                 /\ lastEvent'.id = 0
       /\ (http.pc = "insert" /\ http'.pc # "insert" /\ messages' = messages)
            => lastEvent' = lastEvent]_vars

\* a stored message was published to a room that has subscribers
C25_Witness ==
    /\ lastEvent.name = "message"
    /\ lastEvent.id # 0
    /\ lastEvent.to # {}
    /\ \E m \in messages : m.id = lastEvent.id

\* C26: the step that stores a message publishes it, with the stored recipientId, to every
\* socket subscribed to its room at that moment, and the stored recipientId is the one the
\* sender gave
C26_EverySubscriberGetsIt ==
    [][\A m \in messages' \ messages :
         /\ lastEvent'.name = "message"
         /\ lastEvent'.id = m.id
         /\ lastEvent'.room = m.roomId
         /\ lastEvent'.to = {x \in Conns : <<x, m.roomId>> \in subs}
         /\ lastEvent'.recipientId = m.recipientId
         /\ \/ lastEvent'.conn = "http" /\ http.pc = "insert"
                                        /\ m.recipientId = http.recipientId
            \/ \E c \in Conns : /\ lastEvent'.conn = c
                                /\ conn[c].pc = "msg_insert"
                                /\ m.recipientId = conn[c].recipientId]_vars

\* a message addressed to one user reached a subscribed socket of somebody else
C26_Witness ==
    /\ lastEvent.name = "message"
    /\ lastEvent.id # 0
    /\ lastEvent.recipientId \in Users
    /\ \E x \in lastEvent.to : conn[x].userId # lastEvent.recipientId

\* ---- the membership calls one by one ----

\* the call p has just taken the step from pc
Stepped(p, op, pc) == call[p].op = op /\ call[p].pc = pc /\ call'[p] # call[p]

\* the pair's row as the table holds it
PairRow(tbl, p) == SelectMember(tbl, call[p].roomId, call[p].userId)

\* C31: a joinRoom that finds the pair ACTIVE returns that row at once and writes
\* nothing: the table, the row's status and its joinedIn included, is as it was
C31_JoinActiveIdempotent ==
    [][\A p \in Procs :
         (Stepped(p, "join", "join_selMember") /\ PairRow(roomMembers, p).status = "ACTIVE")
           => /\ roomMembers' = roomMembers
              /\ call'[p].pc = "done"
              /\ call'[p].result = Res("row", "ACTIVE")]_vars

\* a joinRoom on a pair that was ACTIVE before the call has returned the row, whose
\* joinedIn is still the one its insert wrote
C31_Witness ==
    \E p \in Procs :
        /\ call[p].op = "join" /\ call[p].pc = "done"
        /\ call[p].roomId \in Rooms
        /\ base[call[p].roomId][call[p].userId] = "ACTIVE"
        /\ call[p].result = Res("row", "ACTIVE")
        /\ PairRow(roomMembers, p).joinedIn = "inserted"
        /\ \A q \in Procs \ {p} : call[q].op = "idle"

\* C32: a joinRoom that found the pair's row in BAN sets that row to ACTIVE, the caller
\* being the member and no owner check being made, and canSendMessage is then true for
\* the pair
C32_JoinLiftsBan ==
    [][\A p \in Procs :
         (Stepped(p, "join", "join_update") /\ HasId(roomMembers, call[p].memId))
           => /\ call[p].actor = call[p].userId
              /\ PairRow(roomMembers', p).status = "ACTIVE"
              /\ canSendMessage(roomMembers', call[p].roomId, call[p].userId)
              /\ call'[p].result = Res("row", "ACTIVE")]_vars

\* a member who is not the owner and was in BAN before the call has joined and may send
C32_Witness ==
    \E p \in Procs :
        /\ call[p].op = "join" /\ call[p].pc = "done"
        /\ call[p].roomId \in Rooms
        /\ call[p].userId # rooms[call[p].roomId].ownerId
        /\ base[call[p].roomId][call[p].userId] = "BAN"
        /\ PairRow(roomMembers, p).joinedIn = "rejoined"
        /\ canSendMessage(roomMembers, call[p].roomId, call[p].userId)
        /\ \A q \in Procs \ {p} : call[q].op = "idle"

\* C33: leaveRoom's delete removes the pair's row whether it is ACTIVE or BAN and returns
\* it; with no row it answers NotFound and the table is as it was; and a pair that has no
\* row gets one only from a joinRoom or a banUser
C33_LeaveDeletesAnyRow ==
    [][/\ \A p \in Procs :
            Stepped(p, "leave", "leave_delete") =>
               LET s == PairRow(roomMembers, p).status IN
                 /\ PairRow(roomMembers', p).status = "NONE"
                 /\ \A m \in roomMembers :
                      m \in roomMembers'
                        <=> ~(m.roomId = call[p].roomId /\ m.userId = call[p].userId)
                 /\ roomMembers' \subseteq roomMembers
                 /\ call'[p].result = IF s = "NONE" THEN Res("NotFound", "NONE")
                                      ELSE Res("row", s)
       /\ \A r \in Rooms, u \in Users :
            (StatusIn(roomMembers, r, u) = "NONE" /\ StatusIn(roomMembers', r, u) # "NONE")
              => (Acting("join", r, u) \/ Acting("ban", r, u))]_vars

\* a member in BAN has left: the row is gone and the call returned it
C33_Witness ==
    \E p \in Procs :
        /\ call[p].op = "leave" /\ call[p].pc = "done"
        /\ call[p].roomId \in Rooms
        /\ base[call[p].roomId][call[p].userId] = "BAN"
        /\ call[p].result = Res("row", "BAN")
        /\ PairRow(roomMembers, p).status = "NONE"
        /\ \A q \in Procs \ {p} : call[q].op = "idle"

\* C34: a banUser or unbanUser on an existing room whose acting user is not the room's
\* owner returns Forbidden at once, whoever the target is and whatever row the target
\* has, and the table is as it was
C34_OnlyOwnerBans ==
    [][\A p \in Procs :
         (/\ call[p].pc = "idle"
          /\ call'[p].op \in {"ban", "unban"}
          /\ call'[p].roomId \in Rooms
          /\ call'[p].actor # rooms[call'[p].roomId].ownerId)
           => /\ call'[p].pc = "done"
              /\ call'[p].result = Res("Forbidden", "NONE")
              /\ roomMembers' = roomMembers]_vars

\* somebody else than the owner tried to ban the owner and got Forbidden, not Conflict
C34_Witness ==
    \E p \in Procs :
        /\ call[p].op = "ban" /\ call[p].pc = "done"
        /\ call[p].roomId \in Rooms
        /\ call[p].actor # rooms[call[p].roomId].ownerId
        /\ call[p].userId = rooms[call[p].roomId].ownerId
        /\ call[p].result = Res("Forbidden", "NONE")

\* C35: the owner's unbanUser, reading the target's row, answers NotFound when there is
\* none and Conflict when it is ACTIVE, the table staying as it was, and goes on to its
\* update only when the row is in BAN; the update sets that row to ACTIVE and changes
\* nothing else
C35_UnbanOnlyFromBan ==
    [][\A p \in Procs :
         /\ Stepped(p, "unban", "unban_selMember") =>
              LET s == PairRow(roomMembers, p).status IN
                /\ roomMembers' = roomMembers
                /\ s = "NONE" => call'[p].pc = "done"
                                 /\ call'[p].result = Res("NotFound", "NONE")
                /\ s = "ACTIVE" => call'[p].pc = "done"
                                   /\ call'[p].result = Res("Conflict", "NONE")
                /\ s = "BAN" <=> call'[p].pc = "unban_update"
         /\ Stepped(p, "unban", "unban_update") =>
              roomMembers' = {IF m.id = call[p].memId THEN [m EXCEPT !.status = "ACTIVE"]
                              ELSE m : m \in roomMembers}]_vars

\* the owner's unban of a member who was ACTIVE ended in Conflict and the member is
\* still ACTIVE
C35_Witness ==
    \E p \in Procs :
        /\ call[p].op = "unban" /\ call[p].pc = "done"
        /\ call[p].roomId \in Rooms
        /\ call[p].actor = rooms[call[p].roomId].ownerId
        /\ base[call[p].roomId][call[p].userId] = "ACTIVE"
        /\ call[p].result = Res("Conflict", "NONE")
        /\ PairRow(roomMembers, p).status = "ACTIVE"
        /\ \A q \in Procs \ {p} : call[q].op = "idle"

C37_UserCheckedAfterStrategy ==
    (guard.pc \notin {"idle", "received"} /\ ~request.isPublic) =>
        /\ guard.outcome = "true" =>
             \/ guard.strategy = "jwt" /\ hasUserId(request.user)
             \/ guard.strategy = "api-key-jwt"
                  /\ (hasUserId(request.user) \/ hasApiKeyId(request.user))
        /\ guard.strategy = "jwt" <=> (hasAuthorization(request) /\ ~hasApiKey(request))
        /\ guard.strategy = "api-key-jwt" <=> (hasApiKey(request) /\ ~hasAuthorization(request))
        /\ guard.strategy # "none" => passportCalls = <<guard.strategy>>
        /\ (guard.pc = "done" /\ request.user = "none") => guard.outcome # "true"

\* the 'jwt' strategy succeeded with a user that has an apiKeyId and no userId, and the
\* guard answered Unauthorized
C37_Witness ==
    /\ guard.pc = "done"
    /\ guard.strategy = "jwt"
    /\ request.user = "apiKeyId"
    /\ guard.outcome = "Unauthorized"

\* ---- the connection registry ----

\* C38: in socket.gateway.ts the registry holds an entry for a socket exactly while the
\* socket is connected, the entry appears only with the connection and goes only with
\* the disconnect, and it carries the identity the socket was bound to
C38_RegistryIsConnected ==
    [][gateway = "socket.gateway.ts" =>
         \A c \in Conns :
            /\ connectedClients'[c].present <=> conn'[c].phase = "open"
            /\ (~connectedClients[c].present /\ connectedClients'[c].present)
                 => lastEvent' # lastEvent /\ lastEvent'.name = "connection"
                                           /\ lastEvent'.conn = c
            /\ (connectedClients[c].present /\ ~connectedClients'[c].present)
                 => lastEvent'.name = "disconnect" /\ lastEvent'.conn = c
            /\ connectedClients'[c].present
                 => /\ connectedClients'[c].userId = conn'[c].userId
                    /\ connectedClients'[c].apiKeyId = conn'[c].apiKeyId]_vars

\* a 'join' was handled for one socket while another socket, once connected, is gone
\* from the registry
C38_Witness ==
    /\ gateway = "socket.gateway.ts"
    /\ lastEvent.name = "join"
    /\ connectedClients[lastEvent.conn].present
    /\ connectedClients[lastEvent.conn].username # "none"
    /\ \E d \in Conns : conn[d].phase = "disconnected" /\ ~connectedClients[d].present

\* ---- 'join-room-member' ----

\* the 'join-room-member' handler of c has just taken a step
JoinRoomMemberStep(c) ==
    \/ lastEvent' # lastEvent /\ lastEvent'.name = "join-room-member" /\ lastEvent'.conn = c
    \/ conn'[c].pc # conn[c].pc /\ conn'[c].pc \in {"jrm_selMember", "jrm_insert", "jrm_update"}

\* C39: a socket is subscribed by 'join-room-member' only on the step that ends the
\* handler after joinRoom returned, the user then being an ACTIVE member of the room;
\* when joinRoom fails the subscriptions and the membership table stay as they were,
\* nobody else is sent anything and the requester is sent 'error'
C39_SubscribeAfterJoin ==
    [][\A c \in Conns :
         JoinRoomMemberStep(c) =>
            /\ subs' # subs =>
                  /\ lastEvent'.outcome = "joined"
                  /\ subs' \ subs = {<<c, lastEvent'.room>>}
                  /\ subs \subseteq subs'
                  /\ conn[c].pc \in {"jrm_selMember", "jrm_insert", "jrm_update"}
                  /\ getMemberStatus(roomMembers', lastEvent'.room, conn[c].userId) = "ACTIVE"
            /\ lastEvent'.outcome = "error" =>
                  /\ subs' = subs
                  /\ roomMembers' = roomMembers
                  /\ lastEvent'.to = {}
                  /\ lastEvent'.reply = "error"]_vars

\* a join to a room that does not exist ended in 'error' while another socket is
\* subscribed to a room, and the requester is subscribed to nothing
C39_Witness ==
    /\ lastEvent.name = "join-room-member"
    /\ lastEvent.outcome = "error"
    /\ lastEvent.room = MissingRoom
    /\ \A r \in RoomIds : <<lastEvent.conn, r>> \notin subs
    /\ \E x \in Conns \ {lastEvent.conn} : \E r \in Rooms : <<x, r>> \in subs

\* the handshake of connection c has just bound an identity of authType a
Bound(c, a) == conn'[c].authType = a /\ conn[c].authType # a

\* the call of p has ended, under operation op, with a result of kind k
AuthReturned(p, op, k) ==
    authCall[p].pc = "done" /\ authCall[p].op = op /\ authCall[p].result.kind = k

====
